---- MODULE Spec2Model ----
(***************************************************************************)
(* Luminous cognition hook (src/hooks/useLuminousCognition.ts) and its     *)
(* Upstash persistence layer (src/services/persistenceService.ts).         *)
(*                                                                         *)
(* React is modelled by what it does to the hook: `state`, `isReady`,      *)
(* `isProcessing`, ... hold the latest value of every useState cell (queued *)
(* updaters are applied in order, so the latest value is the value the     *)
(* next render sees); `rendered` is the snapshot the closures of the last  *)
(* render captured.  Code between two awaits runs to completion in one     *)
(* action.  Numbers with one decimal (energy) are kept in tenths.          *)
(***************************************************************************)
EXTENDS Integers, Sequences, FiniteSets, TLC

\* ------------------------------------------------------------------ bounds
MaxSessions   == 2   \* page loads (mounts of the hook)
MaxTurns      == 2   \* calls of processUserMessage over a behaviour
MaxModelCalls == 2   \* model calls inside one turn-loop
MaxBatch      == 2   \* function calls in one model response
MaxTicks      == 1   \* energy decay ticks over a behaviour
MaxCycles     == 1   \* reflection cycles started over a behaviour
MaxFailures   == 1   \* store requests that fail in transport
MaxWeightUpdates == 3 \* updates of the intrinsic value weights over a behaviour

\* ------------------------------------------------------- program constants
MAX_BACKUPS == 20
FullEnergy  == 1000  \* energy: 100, in tenths
DecayStep   == 1     \* 0.1, in tenths
SliderSteps == 100   \* the weight sliders: min 0, max 1, step 0.01

CoreFields  == {"systemPhase", "luminousStatus", "environmentState", "kinshipJournal", "intrinsicValueWeights"}

\* --------------------------------------------------------- JSON conversion
\* JSON.stringify / JSON.parse: a string is a wrapper around the value, never
\* the value itself.
Stringify(v) == [json |-> v]
Parse(s)     == s.json

EmptyHash == [f \in {} |-> Stringify(0)]

\* Object.entries(obj).flatMap(([k, v]) => [k, JSON.stringify(v)])
HSetArgs(obj) == [f \in DOMAIN obj |-> Stringify(obj[f])]

\* for (i = 0; i < raw.length; i += 2) coreState[raw[i]] = JSON.parse(raw[i+1])
ParseHash(raw) == [f \in DOMAIN raw |-> Parse(raw[f])]

\* const { chatHistory, ...coreState } = state
CoreOf(st) == [f \in (DOMAIN st) \ {"chatHistory"} |-> st[f]]

\* { ...a, ...b }
Spread(a, b) == [f \in (DOMAIN a) \cup (DOMAIN b) |-> IF f \in DOMAIN b THEN b[f] ELSE a[f]]

\* messages.map(msg => JSON.stringify(msg))
StringifyAll(s) == [i \in 1..Len(s) |-> Stringify(s[i])]
\* result.map((msg: string) => JSON.parse(msg))
ParseAll(s) == [i \in 1..Len(s) |-> Parse(s[i])]

IsPrefix(s, t) == Len(s) <= Len(t) /\ SubSeq(t, 1, Len(s)) = s

\* ------------------------------------------------------------ initialState
JournalEntry(type, event, at) == [type |-> type, event |-> event, at |-> at]
Message(role, kind, parts)    == [role |-> role, kind |-> kind, parts |-> parts]

\* ------------------------------------------------- intrinsic value weights
\* A weight vector is num[k] / den for every key, num[k] >= 0.  den = 0 stands
\* for the vector whose entries are all NaN, the result of 0 / 0.
WeightKeys == {"coherence", "complexity", "novelty", "efficiency", "ethicalAlignment"}

\* intrinsicValueWeights of initialState: 0.2, 0.15, 0.15, 0.2, 0.3
InitialWeights ==
    [ num |-> [coherence |-> 20, complexity |-> 15, novelty |-> 15, efficiency |-> 20, ethicalAlignment |-> 30],
      den |-> 100 ]

NaNWeights == [num |-> [k \in WeightKeys |-> 0], den |-> 0]

\* Object.values(w).reduce((sum, v) => sum + v, 0)
Total(w) == w["coherence"] + w["complexity"] + w["novelty"] + w["efficiency"] + w["ethicalAlignment"]

RECURSIVE GCD(_, _)
GCD(a, b) == IF b = 0 THEN a ELSE GCD(b, a % b)

\* { ...weights, ...newWeights } with the new values in hundredths, every
\* entry over the denominator MergedDen * SliderSteps; a newWeights that
\* names every key leaves nothing of weights
MergedDen(weights, newWeights) == IF DOMAIN newWeights = WeightKeys THEN 1 ELSE weights.den

Merged(weights, newWeights) ==
    [k \in WeightKeys |-> IF k \in DOMAIN newWeights THEN newWeights[k] * MergedDen(weights, newWeights)
                                                      ELSE weights.num[k] * SliderSteps]

\* the merged vector holds numbers and they sum to zero
ZeroSum(weights, newWeights) ==
    MergedDen(weights, newWeights) # 0 /\ Total(Merged(weights, newWeights)) = 0

\* acc[k] = w[k] / total for every key, as a reduced fraction
Normalized(w) ==
    LET total == Total(w)
        g == GCD(GCD(GCD(GCD(w["coherence"], w["complexity"]), w["novelty"]), w["efficiency"]), w["ethicalAlignment"])
    IN IF total = 0 THEN NaNWeights
       ELSE [num |-> [k \in WeightKeys |-> w[k] \div g], den |-> total \div g]

\* the entries are numbers and their sum is 1
SumsToOne(weights) == weights.den # 0 /\ Total(weights.num) = weights.den

\* `at` stands for the timestamp: the page load in which the entry was made.
initialState(sess) ==
    [ systemPhase      |-> "booting",
      luminousStatus   |-> "idle",
      environmentState |-> [energy |-> FullEnergy, data_storage |-> 10, system_integrity |-> 99],
      intrinsicValueWeights |-> InitialWeights,
      kinshipJournal   |-> << JournalEntry("system", "awaiting_kinship", sess) >>,
      chatHistory      |-> << Message("model", "greeting", <<>>) >>,
      products         |-> <<>> ]

\* ---------------------------------------------------------- the KV store
\* store.legacy  : <<>> or <<string>>            key luminous_state
\* store.hash    : field -> string               key luminous_core_hash
\* store.chat    : sequence of strings           key luminous_chat_history
\* store.backups : sequence of backup keys       key luminous_backups
\* store.blobs   : backup key -> string          keys luminous_core_state_backup:<ts>

\* ['HSET', CORE_STATE_HASH_KEY, ...args]
HSET(s, args) == [s EXCEPT !.hash = Spread(s.hash, args)]

\* ['RPUSH', CHAT_HISTORY_KEY, ...strings]
RPUSH(s, strings) == [s EXCEPT !.chat = s.chat \o strings]

\* the backup pipeline without its LTRIM
BackupPipelineNoTrim(s, key, str) ==
    [s EXCEPT !.blobs   = Spread(s.blobs, [k \in {key} |-> str]),
              !.backups = <<key>> \o s.backups]

\* ['SET', backupKey, str], ['LPUSH', BACKUP_LIST_KEY, backupKey], ['LTRIM', BACKUP_LIST_KEY, 0, MAX_BACKUPS - 1]
BackupPipeline(s, key, str) ==
    LET pushed == <<key>> \o s.backups
    IN [s EXCEPT !.blobs   = Spread(s.blobs, [k \in {key} |-> str]),
                 !.backups = SubSeq(pushed, 1, IF Len(pushed) < MAX_BACKUPS THEN Len(pushed) ELSE MAX_BACKUPS)]

\* the migration pipeline without its DEL of the legacy key
MigrationPipelineNoDel(s, legacyState) ==
    LET coreState   == CoreOf(legacyState)
        chatHistory == legacyState.chatHistory
        s1 == IF DOMAIN coreState # {} THEN HSET(s, HSetArgs(coreState)) ELSE s
    IN IF Len(chatHistory) > 0 THEN RPUSH(s1, StringifyAll(chatHistory)) ELSE s1

\* migrateFromLegacyState, the pipeline: HSET core entries, RPUSH chat, DEL legacy key
MigrationPipeline(s, legacyState) ==
    LET coreState   == CoreOf(legacyState)
        chatHistory == legacyState.chatHistory
        s1 == IF DOMAIN coreState # {} THEN HSET(s, HSetArgs(coreState)) ELSE s
        s2 == IF Len(chatHistory) > 0 THEN RPUSH(s1, StringifyAll(chatHistory)) ELSE s1
    IN [s2 EXCEPT !.legacy = <<>>]

\* getLuminousState, the value built from HGETALL + LRANGE 0 -1
FetchedState(s) ==
    Spread(ParseHash(s.hash), [f \in {"chatHistory"} |-> ParseAll(s.chat)])

\* restoreStateFromBackup, the pipeline: DEL hash, HSET hash <entries of the parsed backup>
RestorePipeline(s, backupStateString) ==
    [s EXCEPT !.hash = HSetArgs(Parse(backupStateString))]


\* ------------------------------------------------------------------ state
VARIABLES
    store,        \* the remote key-value store
    clock,        \* wall clock, the timestamp suffix of the next backup key
    faults,       \* store requests that may still fail in transport
    session,      \* number of the current page load
    state,        \* useState<LuminousState>, latest value
    isReady,      \* useState(false)
    isProcessing, \* useState(false)
    saveStatus,   \* useState<SaveStatus>('idle')
    startupTask,  \* useState<StartupTask>({ type: 'none' })
    canSave,      \* useRef(false)
    prevRef,      \* the ref inside usePrevious
    rendered,     \* what the closures of the last render see
    debounce,     \* pending call of debouncedSave: <<>> or <<[new, old]>>
    timers,       \* the intervals that are running, per kind
    boot,         \* loadState / resolveStartupTask, position and locals
    saver,        \* the running debounced save, position and locals
    netq,         \* requests sent and not awaited, in order of sending
    mtab,         \* MemoryTab.handleRestore, position and locals
    geo,          \* geolocation request: "pending" or "done"
    credsAreSet,  \* the hook parameter: the store credentials are in localStorage
    ticks,        \* decay ticks still to come
    cycle,        \* runReflectionCycle (unnamed/part_010), position and locals
    weightUpdates, \* weight updates still to come
    calls,        \* processUserMessage invocations, position and locals
    turns,        \* processUserMessage invocations so far
    hist          \* history of completed getLuminousState runs and seed writes

storeVars == <<store, clock, faults>>
hookVars  == <<state, isReady, isProcessing, saveStatus, startupTask, canSave, prevRef, rendered, debounce, timers>>
procVars  == <<boot, saver, netq, mtab, geo, credsAreSet, ticks, cycle, weightUpdates, calls, turns>>
vars      == <<storeVars, session, hookVars, procVars, hist>>

CallIds == 1..MaxTurns

\* locals of one processUserMessage invocation
IdleCall ==
    [ pc |-> "idle", state |-> initialState(0), isReady |-> FALSE,
      response |-> [text |-> FALSE, functionCalls |-> <<>>], i |-> 0,
      workingChatHistory |-> <<>>, workingState |-> initialState(0), messagesToSave |-> <<>>,
      toolResponsesParts |-> <<>>, hasGroundedResponse |-> FALSE,
      error |-> "none", modelCalls |-> 0, apiHistory |-> <<>>, apiState |-> initialState(0) ]

IdleBoot == [ pc |-> "idle", owner |-> "loadState", cont |-> "none", fields |-> EmptyHash,
              snapshot |-> EmptyHash, legacy |-> <<>>, key |-> 0, blob |-> <<>>,
              result |-> "none", value |-> <<>>, xfail |-> FALSE, migrated |-> FALSE,
              legacyOnly |-> FALSE, primary |-> FALSE ]

\* locals of runReflectionCycle; left: the cycles still to come
IdleCycle == [ pc |-> "idle", left |-> 0, apiState |-> <<>> ]

IdleSaver == [ pc |-> "idle", fields |-> EmptyHash, snapshot |-> EmptyHash, key |-> 0 ]
IdleMtab  == [ pc |-> "idle", key |-> 0, blob |-> <<>> ]

\* timers.energy     : the number of energy intervals that are running
\* timers.reflection : one entry per running reflection interval, the newest
\*                     last: the isProcessing its callback has captured
\* timersRef.current refers to the newest interval of each kind.
NoTimers == [energy |-> 0, reflection |-> <<>>]

Snapshot(st, ready, proc, status, task, prev) ==
    [ state |-> st, isReady |-> ready, isProcessing |-> proc, saveStatus |-> status,
      startupTask |-> task, prevState |-> prev ]

NoTask == [type |-> "none", latestBackupKey |-> 0]

\* The hook right after it is mounted: every useState cell holds its initial
\* value, the mount effects have run (usePrevious has stored initialState,
\* the timer effect found systemPhase = booting, the geolocation request is
\* out) and the load effect has either issued the first request of loadState
\* or, with credsAreSet false, called setIsReady(false) and returned (91-95).
Mount(sess) ==
    /\ session' = sess
    /\ state' = initialState(sess)
    /\ isReady' = FALSE
    /\ isProcessing' = FALSE
    /\ saveStatus' = "saving"
    /\ startupTask' = NoTask
    /\ canSave' = FALSE
    /\ prevRef' = initialState(sess)
    /\ rendered' = Snapshot(initialState(sess), FALSE, FALSE, "saving", NoTask, initialState(sess))
    /\ debounce' = <<>>
    /\ timers' = NoTimers
    /\ boot' = [IdleBoot EXCEPT !.pc = IF credsAreSet THEN "load_legacy" ELSE "no_credentials"]
    /\ saver' = IdleSaver
    /\ mtab' = IdleMtab
    /\ geo' = "pending"
    /\ calls' = [c \in CallIds |-> IF calls[c].pc \in {"idle", "done", "rejected"} THEN calls[c]
                                   ELSE [calls[c] EXCEPT !.pc = "gone"]]


\* ------------------------------------------------------------- scheduling
\* a useState cell has changed since the last render
RenderPending ==
    \/ state # rendered.state
    \/ isReady # rendered.isReady
    \/ isProcessing # rendered.isProcessing
    \/ saveStatus # rendered.saveStatus
    \/ startupTask # rendered.startupTask

\* React renders before the next timer, network answer or callback is
\* handled; only a call made from the UI can still run a callback of the
\* previous render (ChatInterface.handleSend awaits before it calls
\* onSendMessage, unnamed/part_007 101-112).
Settled == ~RenderPending

\* --------------------------------------------------------------- transport
\* A request either reaches the store and is answered (ok), is answered with
\* a non-2xx status (notok), or fetch itself rejects (throw).  A failed
\* request has no effect on the store.
Outcomes == {"ok"} \cup (IF faults > 0 THEN {"notok", "throw"} ELSE {})
\* where the code takes the same path for a non-2xx answer and a rejected fetch
Outcomes2 == {"ok"} \cup (IF faults > 0 THEN {"throw"} ELSE {})
Failed(o) == o # "ok"
CountFailure(o) == faults' = IF Failed(o) THEN faults - 1 ELSE faults

\* a write reached the store: the next load is not a plain re-load, and a
\* restore that came before it is no longer the last write
Touch(h) == [h EXCEPT !.dirty = TRUE, !.restored = <<>>]

\* updateState(updater): canSave.current = true; setState(updater)
UpdateJournal(st, entry) == [st EXCEPT !.kinshipJournal = Append(@, entry)]

\* ------------------------------------------------- loadState: getLuminousState
HasPrimary(s) == s.legacy # <<>> \/ DOMAIN s.hash # {}

\* the record kept of a finished getLuminousState run
RunSummary(b, res, val) ==
    [ result |-> res, value |-> val, migrated |-> b.migrated, legacyOnly |-> b.legacyOnly,
      xfail |-> b.xfail, primary |-> HasPrimary(store'), clean |-> ~hist.dirty,
      restored |-> hist.restored, hash |-> store'.hash, chat |-> store'.chat ]

RecordRun(h, b, res, val) ==
    [h EXCEPT !.loads = (IF Len(@) = 0 THEN <<>> ELSE << @[Len(@)] >>) \o << RunSummary(b, res, val) >>,
              !.dirty = FALSE,
              !.migrations = IF b.migrated THEN @ + 1 ELSE @]

\* const mergedState = { ...initialState, ...savedState }
MergedState(savedState) == Spread(initialState(session), savedState)

\* "System cold boot sequence initiated. No prior memory matrix found. ..."
ColdBootState  == [initialState(session) EXCEPT !.kinshipJournal = << JournalEntry("system", "cold_boot", session) >>]
\* "Kinship directed a fresh start despite available backups. ..."
FreshStartState == [initialState(session) EXCEPT !.kinshipJournal = << JournalEntry("system", "fresh_start", session) >>]

\* setStartupTask({ type: 'none' }); canSave.current = true; setIsReady(true)
ResolveFinish ==
    /\ startupTask' = NoTask
    /\ canSave' = TRUE
    /\ isReady' = TRUE

\* What the caller of getLuminousState does with its result (res is "state",
\* "null" or "error"), up to its next await.
\*   loadState (hook, 102-129); resolveStartupTask (hook, 140-153)
AfterGetLuminousState(b, res, val) ==
    /\ hist' = RecordRun(hist, b, res, val)
    /\ IF b.owner = "loadState"
       THEN CASE res = "state" ->
                   /\ state' = MergedState(val[1])
                   /\ saveStatus' = "saved"
                   /\ canSave' = TRUE
                   /\ isReady' = TRUE
                   /\ boot' = [b EXCEPT !.pc = "ready", !.result = res, !.value = val]
                   /\ UNCHANGED startupTask
              [] res = "null" ->
                   /\ boot' = [b EXCEPT !.pc = "backup_key", !.result = res, !.value = val]
                   /\ UNCHANGED <<state, saveStatus, canSave, isReady, startupTask>>
              [] OTHER ->
                   /\ saveStatus' = "error"
                   /\ boot' = [b EXCEPT !.pc = "failed", !.result = res, !.value = val]
                   /\ UNCHANGED <<state, canSave, isReady, startupTask>>
       ELSE IF res = "state"
            THEN /\ state' = MergedState(val[1])
                 /\ saveStatus' = "saved"
                 /\ ResolveFinish
                 /\ boot' = [b EXCEPT !.pc = "ready", !.result = res, !.value = val]
            ELSE /\ saveStatus' = "error"
                 /\ boot' = [b EXCEPT !.pc = "save_hset", !.cont = "fallback",
                                      !.fields = HSetArgs(CoreOf(initialState(session))),
                                      !.result = res, !.value = val]
                 /\ UNCHANGED <<state, canSave, isReady, startupTask>>

bootFrame == <<session, isProcessing, prevRef, rendered, debounce, timers, saver, netq, mtab, geo, credsAreSet, ticks, cycle, weightUpdates, calls, turns>>

\* migrateFromLegacyState: GET luminous_state (persistenceService 47-64)
LoadGetLegacy ==
    /\ Settled
    /\ boot.pc = "load_legacy"
    /\ \E o \in Outcomes :
         /\ CountFailure(o)
         /\ UNCHANGED <<store, clock>>
         /\ LET b == [boot EXCEPT !.xfail = @ \/ Failed(o)]
            IN CASE o = "ok" /\ store.legacy # <<>> ->
                      /\ boot' = [b EXCEPT !.pc = "load_migrate", !.legacy = store.legacy,
                                           !.legacyOnly = (DOMAIN store.hash = {} /\ store.chat = <<>>)]
                      /\ UNCHANGED <<state, saveStatus, canSave, isReady, startupTask, hist>>
                 [] o = "ok" /\ store.legacy = <<>> ->
                      /\ boot' = [b EXCEPT !.pc = "load_fetch"]
                      /\ UNCHANGED <<state, saveStatus, canSave, isReady, startupTask, hist>>
                 [] o = "notok" ->       \* if (!getResponse.ok) return null
                      /\ boot' = [b EXCEPT !.pc = "load_fetch"]
                      /\ UNCHANGED <<state, saveStatus, canSave, isReady, startupTask, hist>>
                 [] OTHER -> AfterGetLuminousState(b, "error", <<>>)
    /\ UNCHANGED bootFrame

\* migrateFromLegacyState: the migration pipeline (persistenceService 62-95)
LoadMigrate ==
    /\ Settled
    /\ boot.pc = "load_migrate"
    /\ \E o \in Outcomes2 :
         /\ CountFailure(o)
         /\ UNCHANGED clock
         /\ LET legacyState == Parse(boot.legacy[1])
                b == [boot EXCEPT !.xfail = @ \/ Failed(o), !.migrated = (o = "ok")]
            IN IF o = "ok"
               THEN /\ store' = MigrationPipeline(store, legacyState)
                    /\ AfterGetLuminousState(b, "state", << Spread(CoreOf(legacyState), [f \in {"chatHistory"} |-> legacyState.chatHistory]) >>)
               ELSE /\ UNCHANGED store
                    /\ AfterGetLuminousState(b, "error", <<>>)
    /\ UNCHANGED bootFrame

\* getLuminousState: HGETALL + LRANGE pipeline (persistenceService 105-141)
LoadFetch ==
    /\ Settled
    /\ boot.pc = "load_fetch"
    /\ \E o \in Outcomes2 :
         /\ CountFailure(o)
         /\ UNCHANGED <<store, clock>>
         /\ LET b == [boot EXCEPT !.xfail = @ \/ Failed(o)]
            IN IF o = "ok"
               THEN IF DOMAIN store.hash = {}
                    THEN AfterGetLuminousState(b, "null", <<>>)
                    ELSE AfterGetLuminousState(b, "state", << FetchedState(store) >>)
               ELSE AfterGetLuminousState(b, "error", <<>>)
    /\ UNCHANGED bootFrame


\* loadState: getLatestBackupKey, then restore prompt or cold boot
\* (hook 110-120, persistenceService 237-249)
LoadBackupKey ==
    /\ Settled
    /\ boot.pc = "backup_key"
    /\ \E o \in Outcomes2 :
         /\ CountFailure(o)
         /\ LET latestBackupKey == IF o = "ok" /\ Len(store.backups) > 0 THEN << store.backups[1] >> ELSE <<>>
            IN IF latestBackupKey # <<>>
               THEN /\ startupTask' = [type |-> "restore_prompt", latestBackupKey |-> latestBackupKey[1]]
                    /\ boot' = [boot EXCEPT !.pc = "prompt"]
                    /\ UNCHANGED state
               ELSE /\ state' = ColdBootState
                    /\ boot' = [boot EXCEPT !.pc = "save_hset", !.cont = "cold",
                                            !.fields = HSetArgs(CoreOf(ColdBootState))]
                    /\ UNCHANGED startupTask
    /\ UNCHANGED <<store, clock, saveStatus, canSave, isReady, hist>>
    /\ UNCHANGED bootFrame

\* What follows a saveCoreStateFields that returned, per caller:
\*   cold (hook 121-123), fresh (hook 160-166), fallback (hook 153, 164-166)
AfterBootSave(b) ==
    /\ boot' = [b EXCEPT !.pc = "ready"]
    /\ CASE b.cont = "cold" ->
              /\ saveStatus' = "saved"
              /\ canSave' = TRUE
              /\ isReady' = TRUE
              /\ UNCHANGED <<state, startupTask>>
         [] b.cont = "fresh" ->
              /\ state' = FreshStartState
              /\ saveStatus' = "saved"
              /\ ResolveFinish
         [] OTHER ->
              /\ state' = initialState(session)
              /\ UNCHANGED saveStatus
              /\ ResolveFinish

\* a caller that goes on after a saveCoreStateFields that threw as if it had returned
BootSaveIgnoresThrow(b) == AfterBootSave(b)

\* What follows a saveCoreStateFields that threw: loadState catches it (hook
\* 126-129); resolveStartupTask has no handler around these calls.
BootSaveThrew(b) ==
    /\ boot' = [b EXCEPT !.pc = "failed"]
    /\ saveStatus' = IF b.cont = "cold" THEN "error" ELSE saveStatus
    /\ UNCHANGED <<state, canSave, isReady, startupTask>>

\* saveCoreStateFields, first pipeline: HSET + HGETALL (persistenceService 144-170)
BootSaveHSet ==
    /\ Settled
    /\ boot.pc = "save_hset"
    /\ \E o \in Outcomes2 :
         /\ CountFailure(o)
         /\ IF o = "ok"
            THEN /\ store' = HSET(store, boot.fields)
                 /\ hist' = [Touch(hist) EXCEPT !.seeds = @ \cup {[path |-> boot.cont, hadBackup |-> Len(store.backups) > 0,
                                                                      noPrimary |-> ~HasPrimary(store)]}]
                 /\ IF DOMAIN store'.hash # {}
                    THEN /\ boot' = [boot EXCEPT !.pc = "save_backup", !.snapshot = store'.hash, !.key = clock]
                         /\ clock' = clock + 1
                         /\ UNCHANGED <<state, saveStatus, canSave, isReady, startupTask>>
                    ELSE /\ UNCHANGED clock
                         /\ AfterBootSave(boot)
            ELSE /\ UNCHANGED <<store, clock, hist>>
                 /\ BootSaveThrew(boot)
    /\ UNCHANGED bootFrame

\* saveCoreStateFields, backup pipeline (persistenceService 172-202)
BootSaveBackup ==
    /\ Settled
    /\ boot.pc = "save_backup"
    /\ \E o \in Outcomes :
         /\ CountFailure(o)
         /\ UNCHANGED clock
         /\ CASE o = "ok" ->
                   /\ store' = BackupPipeline(store, boot.key, Stringify(ParseHash(boot.snapshot)))
                   /\ hist' = [Touch(hist) EXCEPT !.chatAt = Spread(@, [k \in {boot.key} |-> store.chat])]
                   /\ AfterBootSave(boot)
              [] o = "notok" ->      \* console.error("Failed to save backup after state update.")
                   /\ UNCHANGED <<store, hist>>
                   /\ AfterBootSave(boot)
              [] OTHER ->
                   /\ UNCHANGED <<store, hist>>
                   /\ BootSaveThrew(boot)
    /\ UNCHANGED bootFrame

\* resolveStartupTask(decision), up to its first await (hook 135-139, 155-159).
\* It is called from the restore prompt, which is shown while the rendered
\* startupTask is restore_prompt.
ResolveStartupTask(decision) ==
    /\ Settled
    /\ rendered.startupTask.type = "restore_prompt"
    /\ boot.pc \in {"prompt", "failed"}
    /\ saveStatus' = "saving"
    /\ IF decision = "restore" /\ rendered.startupTask.latestBackupKey # 0
       THEN boot' = [boot EXCEPT !.pc = "restore_get", !.owner = "resolve", !.cont = "none",
                                 !.key = rendered.startupTask.latestBackupKey]
       ELSE boot' = [boot EXCEPT !.pc = "save_hset", !.owner = "resolve", !.cont = "fresh",
                                 !.fields = HSetArgs(CoreOf(FreshStartState))]
    /\ UNCHANGED <<store, clock, faults, state, canSave, isReady, startupTask, hist>>
    /\ UNCHANGED bootFrame

\* the catch block of resolveStartupTask, up to its await (hook 148-152)
ResolveCatch(b) ==
    /\ saveStatus' = "error"
    /\ boot' = [b EXCEPT !.pc = "save_hset", !.cont = "fallback",
                         !.fields = HSetArgs(CoreOf(initialState(session)))]
    /\ UNCHANGED <<state, canSave, isReady, startupTask>>

\* restoreStateFromBackup: GET <backupKey> (persistenceService 251-265)
RestoreGet ==
    /\ Settled
    /\ boot.pc = "restore_get"
    /\ \E o \in Outcomes2 :
         /\ CountFailure(o)
         /\ IF o = "ok" /\ boot.key \in DOMAIN store.blobs
            THEN /\ boot' = [boot EXCEPT !.pc = "restore_set", !.blob = << store.blobs[boot.key] >>]
                 /\ UNCHANGED <<state, saveStatus, canSave, isReady, startupTask>>
            ELSE ResolveCatch(boot)
    /\ UNCHANGED <<store, clock, hist>>
    /\ UNCHANGED bootFrame

\* restoreStateFromBackup: DEL + HSET pipeline (persistenceService 267-285),
\* then getLuminousState is started (hook 140)
RestoreSet ==
    /\ Settled
    /\ boot.pc = "restore_set"
    /\ \E o \in Outcomes2 :
         /\ CountFailure(o)
         /\ IF o = "ok"
            THEN /\ store' = RestorePipeline(store, boot.blob[1])
                 /\ hist' = [Touch(hist) EXCEPT !.restored = << boot.key >>]
                 /\ boot' = [boot EXCEPT !.pc = "load_legacy", !.result = "none", !.value = <<>>,
                                         !.xfail = FALSE, !.migrated = FALSE, !.legacyOnly = FALSE]
                 /\ UNCHANGED <<state, saveStatus, canSave, isReady, startupTask>>
            ELSE /\ UNCHANGED <<store, hist>>
                 /\ ResolveCatch(boot)
    /\ UNCHANGED clock
    /\ UNCHANGED bootFrame


\* ------------------------------------------------------------- rendering
\* a stopTimers that clears nothing
stopTimersKeeps(t) == t

\* stopTimers (hook 260-264): clearInterval on what timersRef.current refers to
stopTimers(t) ==
    [ energy     |-> IF t.energy > 0 THEN t.energy - 1 ELSE 0,
      reflection |-> SubSeq(t.reflection, 1, Len(t.reflection) - 1) ]

\* startTimers (hook 248-258): one energy interval
startTimers(t) == [t EXCEPT !.energy = @ + 1]

\* the timer effect is run again (hook 266-272): the cleanup of its last
\* run, which is stopTimers, then its body
TimerEffect(t, st) ==
    IF st.systemPhase = "operational" /\ st.luminousStatus # "uncomfortable"
    THEN startTimers(stopTimers(t))
    ELSE stopTimers(stopTimers(t))

\* One render of the hook and the effects that follow it.
\*   usePrevious (20-26): returns ref.current, then stores the new value
\*   save effect (84-88), deps [state, isReady, credsAreSet, debouncedSave, prevState]
\*   timer effect (247-273), deps [state.systemPhase, state.luminousStatus, updateState]
Render ==
    LET prevState == prevRef
        saveDeps  == state # rendered.state \/ isReady # rendered.isReady \/ prevState # rendered.prevState
        timerDeps == state.systemPhase # rendered.state.systemPhase
                     \/ state.luminousStatus # rendered.state.luminousStatus
    IN /\ RenderPending
       /\ rendered' = Snapshot(state, isReady, isProcessing, saveStatus, startupTask, prevState)
       /\ prevRef' = state
       /\ debounce' = IF saveDeps /\ isReady /\ canSave
                      THEN << [new |-> state, old |-> << prevState >>] >>
                      ELSE debounce
       /\ timers' = IF timerDeps THEN TimerEffect(timers, state) ELSE timers
       /\ UNCHANGED <<storeVars, session, state, isReady, isProcessing, saveStatus, startupTask, canSave, procVars, hist>>

\* the callbacks of navigator.geolocation.getCurrentPosition (hook 203-244):
\* each appends one system entry through updateState
GeolocationCallback ==
    /\ Settled
    /\ geo = "pending"
    /\ geo' = "done"
    /\ canSave' = TRUE
    /\ state' = UpdateJournal(state, JournalEntry("system", "geolocation", session))
    /\ UNCHANGED <<storeVars, session, isReady, isProcessing, saveStatus, startupTask, prevRef, rendered,
                   debounce, timers, boot, saver, netq, mtab, credsAreSet, ticks, cycle, weightUpdates, calls, turns, hist>>

\* a decay without a floor
MaxSecond(a, b) == b

Max(a, b) == IF a > b THEN a ELSE b

\* the energy interval callback (hook 249-257)
DecayTick ==
    /\ Settled
    /\ timers.energy > 0
    /\ ticks > 0
    /\ ticks' = ticks - 1
    /\ UNCHANGED <<weightUpdates, credsAreSet, cycle>>
    /\ canSave' = TRUE
    /\ state' = [state EXCEPT !.environmentState.energy = Max(0, @ - DecayStep)]
    /\ UNCHANGED <<storeVars, session, isReady, isProcessing, saveStatus, startupTask, prevRef, rendered,
                   debounce, timers, boot, saver, netq, mtab, geo, calls, turns, hist>>

\* ------------------------------------------------------------ debouncedSave
\* a debouncedSave that sends every core field whatever the previous snapshot
FieldsToUpdateAll(newState, oldState) == CoreOf(newState)

\* fieldsToUpdate of debouncedSave (hook 53-70).  The code compares the two
\* snapshots field by field with !==, the model compares the contents of the
\* fields: an updater that replaces a field gives it other contents.
FieldsToUpdate(newState, oldState) ==
    IF oldState = <<>>
    THEN CoreOf(newState)
    ELSE [key \in {k \in (DOMAIN newState) \ {"chatHistory"} :
                       k \notin DOMAIN oldState[1] \/ newState[k] # oldState[1][k]} |-> newState[key]]

\* the debounce delay has passed: the callback runs up to its await (hook 49-75)
DebouncedSaveFire ==
    /\ Settled
    /\ debounce # <<>>
    /\ saver.pc = "idle"
    /\ debounce' = <<>>
    /\ LET fieldsToUpdate == FieldsToUpdate(debounce[1].new, debounce[1].old)
       IN IF DOMAIN fieldsToUpdate # {}
          THEN /\ saveStatus' = "saving"
               /\ saver' = [saver EXCEPT !.pc = "hset", !.fields = HSetArgs(fieldsToUpdate)]
          ELSE /\ saveStatus' = "saved"
               /\ UNCHANGED saver
    /\ UNCHANGED <<storeVars, session, state, isReady, isProcessing, startupTask, canSave, prevRef, rendered,
                   timers, boot, netq, mtab, geo, credsAreSet, ticks, cycle, weightUpdates, calls, turns, hist>>

saverFrame == <<session, state, isReady, isProcessing, startupTask, canSave, prevRef, rendered, debounce,
                timers, boot, netq, mtab, geo, credsAreSet, ticks, cycle, weightUpdates, calls, turns>>

\* saveCoreStateFields of the debounced save, first pipeline (persistenceService 144-170, hook 76-79)
SaverHSet ==
    /\ Settled
    /\ saver.pc = "hset"
    /\ \E o \in Outcomes2 :
         /\ CountFailure(o)
         /\ IF o = "ok"
            THEN /\ store' = HSET(store, saver.fields)
                 /\ hist' = Touch(hist)
                 /\ saver' = [saver EXCEPT !.pc = "backup", !.snapshot = store'.hash, !.key = clock]
                 /\ clock' = clock + 1
                 /\ UNCHANGED saveStatus
            ELSE /\ saveStatus' = "error"
                 /\ saver' = IdleSaver
                 /\ UNCHANGED <<store, clock, hist>>
    /\ UNCHANGED saverFrame

\* saveCoreStateFields of the debounced save, backup pipeline (persistenceService 172-202)
SaverBackup ==
    /\ Settled
    /\ saver.pc = "backup"
    /\ saver' = IdleSaver
    /\ \E o \in Outcomes :
         /\ CountFailure(o)
         /\ CASE o = "ok" ->
                   /\ store' = BackupPipeline(store, saver.key, Stringify(ParseHash(saver.snapshot)))
                   /\ hist' = [Touch(hist) EXCEPT !.chatAt = Spread(@, [k \in {saver.key} |-> store.chat])]
                   /\ saveStatus' = "saved"
              [] o = "notok" ->
                   /\ saveStatus' = "saved"
                   /\ UNCHANGED <<store, hist>>
              [] OTHER ->
                   /\ saveStatus' = "error"
                   /\ UNCHANGED <<store, hist>>
    /\ UNCHANGED clock
    /\ UNCHANGED saverFrame

\* ------------------------------------------- requests nobody is waiting for
Request(op, strings, args) == [op |-> op, strings |-> strings, args |-> args]

\* the oldest request sent without await reaches the store or is lost
\*   appendToChatHistory (persistenceService 205-221): errors are logged only
NetDeliver ==
    /\ Settled
    /\ netq # <<>>
    /\ netq' = Tail(netq)
    /\ \E o \in Outcomes2 :
         /\ CountFailure(o)
         /\ IF o = "ok"
            THEN /\ store' = IF netq[1].op = "rpush" THEN RPUSH(store, netq[1].strings)
                                                    ELSE HSET(store, netq[1].args)
                 /\ hist' = Touch(hist)
            ELSE UNCHANGED <<store, hist>>
    /\ UNCHANGED <<clock, session, hookVars, boot, saver, mtab, geo, credsAreSet, ticks, cycle, weightUpdates, calls, turns>>


\* ------------------------------------------------------ processUserMessage
\* The code between two awaits works on W = [state, canSave, isProcessing,
\* netq, l]: the cells it writes and the locals l of the invocation.

\* the tools the model's function calls are drawn from in the turn-loop specification
TurnTools       == {"googleSearch", "generateVideo", "logToJournal", "commenceOperationalPhase"}
\* the virtual file system tools (hook 415-481)
FileTools       == {"writeFile", "readFile", "deleteFile"}
\* the Shopify tools (hook 562-620), each a request to the shop
ShopifyTools    == {"fetchProductList"}
RegisteredTools == TurnTools \cup FileTools \cup ShopifyTools \cup {"rechargeEnergy", "modifySelfModel"}
NetworkTools    == {"googleSearch", "generateVideo"}
GroundingTools  == {"googleSearch"}

\* updateState(s => ...)
SetState(w, st) == [w EXCEPT !.state = st, !.canSave = TRUE]

\* workingChatHistory.push(m); updateState(s => ({...s, chatHistory: workingChatHistory})); messagesToSave.push(m)
PushTurn(w, m) ==
    LET pushed == Append(w.l.workingChatHistory, m)
    IN [SetState(w, [w.state EXCEPT !.chatHistory = pushed])
          EXCEPT !.l.workingChatHistory = pushed, !.l.messagesToSave = Append(@, m)]

\* a saveChatMessages that sends nothing
saveChatMessagesSkipped(w, messages) == w

\* saveChatMessages (hook 170-174) calling appendToChatHistory without await
saveChatMessages(w, messages) ==
    IF w.l.isReady /\ w.canSave /\ Len(messages) > 0
    THEN [w EXCEPT !.netq = Append(@, Request("rpush", StringifyAll(messages), EmptyHash))]
    ELSE w

\* getLuminousResponse(apiState, tools, modelToUse) is called
CallModel(w, apiState) ==
    [w EXCEPT !.l.pc = "await_model", !.l.modelCalls = @ + 1, !.l.apiState = apiState]

\* the tools that complete without a network request
\*   logToJournal (hook 376-379), commenceOperationalPhase (hook 283-286)
\*   rechargeEnergy (hook 387-390)
RunLocalTool(w, name) ==
    CASE name = "logToJournal" ->
           SetState(w, UpdateJournal(w.state, JournalEntry("interaction", "logged", session)))
      [] name = "rechargeEnergy" ->
           SetState(w, [w.state EXCEPT !.environmentState = Spread(@, [f \in {"energy"} |-> FullEnergy])])
      [] OTHER ->
           SetState(w, [UpdateJournal(w.state, JournalEntry("system", "operational", session))
                          EXCEPT !.systemPhase = "operational", !.luminousStatus = "idle"])

FunctionResponse(name) == [functionResponse |-> name]

\* the arguments of the file tools: one path, one content
FilePath   == "/thoughts/plan.txt"
NewContent == "new"
OldContent == "old"

\* state.virtualFileSystem is an object; initialState (src/data) has no such
\* field, a state loaded from the store has it once a file was written
HasFiles(st) == "virtualFileSystem" \in DOMAIN st
NoFiles == [p \in {} |-> ""]
FilesOf(st) == IF HasFiles(st) THEN st.virtualFileSystem ELSE NoFiles

\* functionResponse: { name, response: { result } }
ToolResult(name, result) == [functionResponse |-> name, result |-> result]
NotFound == [success |-> FALSE, error |-> "File not found."]

\* a loop that puts each result in front of the earlier ones
PushedFirst(w, part) == [w EXCEPT !.l.toolResponsesParts = << part >> \o @, !.l.i = @ + 1]

\* toolResponsesParts.push(...), the for loop goes on (hook 781, 796, 810-814)
Pushed(w, part) == [w EXCEPT !.l.toolResponsesParts = Append(@, part), !.l.i = @ + 1]
\* reading a property of undefined throws a TypeError
Thrown(w) == [w EXCEPT !.l.error = "Error", !.l.pc = "catch"]

\* writeFile (hook 422-425): the updater spreads the latest virtualFileSystem
writeFile(w, path, content) ==
    LET files == Spread(FilesOf(w.state), [p \in {path} |-> content])
    IN Pushed(SetState(w, Spread(w.state, [f \in {"virtualFileSystem"} |-> files])),
              ToolResult("writeFile", [success |-> TRUE, path |-> path]))

\* readFile (hook 433-439): reads the `state` of the render that made the callback
readFile(w, path) ==
    IF ~HasFiles(w.l.state)
    THEN Thrown(w)
    ELSE IF path \notin DOMAIN w.l.state.virtualFileSystem
         THEN Pushed(w, ToolResult("readFile", NotFound))
         ELSE Pushed(w, ToolResult("readFile", [success |-> TRUE, content |-> w.l.state.virtualFileSystem[path]]))

\* deleteFile (hook 470-480): the check reads the render's `state`, the updater the latest
deleteFile(w, path) ==
    IF ~HasFiles(w.l.state)
    THEN Thrown(w)
    ELSE IF path \notin DOMAIN w.l.state.virtualFileSystem
         THEN Pushed(w, ToolResult("deleteFile", NotFound))
         ELSE LET newVFS == [p \in (DOMAIN FilesOf(w.state)) \ {path} |-> w.state.virtualFileSystem[p]]
              IN Pushed(SetState(w, Spread(w.state, [f \in {"virtualFileSystem"} |-> newVFS])),
                        ToolResult("deleteFile", [success |-> TRUE]))

RunFileTool(w, name) ==
    CASE name = "writeFile" -> writeFile(w, FilePath, NewContent)
      [] name = "readFile"  -> readFile(w, FilePath)
      [] OTHER              -> deleteFile(w, FilePath)

\* modifySelfModel (hook 346-368): the updater works on the latest state; its
\* last branch returns the state it was given
modifySelfModel(w, action, capability) ==
    LET s == w.state
        capabilities == s.selfModel.capabilities
        includes == \E i \in 1..Len(capabilities) : capabilities[i] = capability
        updated(newCapabilities, event) ==
            [s EXCEPT !.selfModel = Spread(@, [f \in {"capabilities"} |-> newCapabilities]),
                      !.kinshipJournal = Append(@, JournalEntry("reflection", event, session))]
        newState == CASE action = "add" /\ ~includes ->
                           updated(Append(capabilities, capability), "capability_integrated")
                      [] action = "remove" ->
                           updated(SelectSeq(capabilities, LAMBDA c : c # capability), "capability_removed")
                      [] OTHER -> s
    IN Pushed(SetState(w, newState), ToolResult("modifySelfModel", [success |-> TRUE]))

\* head of the while loop (hook 761-771)
StepLoop(w) ==
    LET functionCalls == w.l.response.functionCalls
    IN IF Len(functionCalls) > 0
       THEN [PushTurn(w, Message("model", "functionCall", functionCalls))
               EXCEPT !.l.toolResponsesParts = <<>>, !.l.hasGroundedResponse = FALSE,
                      !.l.i = 1, !.l.pc = "for"]
       ELSE [w EXCEPT !.l.pc = "final"]

\* a for loop that answers a call of an unknown tool as well
StepForAnswersUnknown(w) ==
    IF w.l.i > Len(w.l.response.functionCalls)
    THEN [w EXCEPT !.l.pc = "after_for"]
    ELSE LET name == w.l.response.functionCalls[w.l.i]
         IN CASE name \notin RegisteredTools ->
                   Pushed(w, FunctionResponse(name))
              [] name = "generateVideo" ->
                   [PushTurn(w, Message("model", "video_started", <<>>)) EXCEPT !.l.pc = "await_tool"]
              [] name \in GroundingTools \cup ShopifyTools ->
                   [w EXCEPT !.l.pc = "await_tool"]
              [] name \in FileTools ->
                   RunFileTool(w, name)
              [] OTHER ->
                   Pushed(RunLocalTool(w, name), FunctionResponse(name))

\* one iteration of the for loop up to its await (hook 773-815)
StepFor(w) ==
    IF w.l.i > Len(w.l.response.functionCalls)
    THEN [w EXCEPT !.l.pc = "after_for"]
    ELSE LET name == w.l.response.functionCalls[w.l.i]
         IN CASE name \notin RegisteredTools ->       \* if (!tool) continue
                   [w EXCEPT !.l.i = @ + 1]
              [] name = "generateVideo" ->
                   [PushTurn(w, Message("model", "video_started", <<>>)) EXCEPT !.l.pc = "await_tool"]
              [] name \in GroundingTools \cup ShopifyTools ->
                   [w EXCEPT !.l.pc = "await_tool"]
              [] name \in FileTools ->
                   RunFileTool(w, name)
              [] name = "modifySelfModel" ->
                   modifySelfModel(w, w.l.response.args[w.l.i].action, w.l.response.args[w.l.i].capability)
              [] OTHER ->
                   Pushed(RunLocalTool(w, name), FunctionResponse(name))

\* a loop that is left after its first batch of tool responses
StepAfterForOnce(w) ==
    CASE w.l.hasGroundedResponse -> [w EXCEPT !.l.pc = "final"]
      [] Len(w.l.toolResponsesParts) > 0 ->
           [PushTurn(w, Message("model", "toolResponse", w.l.toolResponsesParts)) EXCEPT !.l.pc = "final"]
      [] OTHER -> [w EXCEPT !.l.pc = "final"]

\* after the for loop (hook 817-832)
StepAfterFor(w) ==
    CASE w.l.hasGroundedResponse -> [w EXCEPT !.l.pc = "final"]
      [] Len(w.l.toolResponsesParts) > 0 ->
           LET w1 == PushTurn(w, Message("model", "toolResponse", w.l.toolResponsesParts))
               nextApiState == [w.l.state EXCEPT !.chatHistory = w1.l.workingChatHistory]
           IN CallModel(w1, nextApiState)
      [] OTHER -> [w EXCEPT !.l.pc = "final"]

\* after the while loop (hook 835-844)
StepFinal(w) ==
    LET w1 == IF w.l.response.text
              THEN [SetState(w, [w.state EXCEPT !.chatHistory = Append(@, Message("model", "text", <<>>))])
                      EXCEPT !.l.messagesToSave = Append(@, Message("model", "text", <<>>))]
              ELSE w
        w2 == IF Len(w1.l.messagesToSave) > 0 THEN saveChatMessages(w1, w1.l.messagesToSave) ELSE w1
    IN [w2 EXCEPT !.l.pc = "finally"]

Scar(event) == JournalEntry("scar", event, session)

\* catch (hook 846-874)
StepCatch(w) ==
    IF w.l.error = "ApiKeyError"
    THEN LET errorMessage == Message("model", "api_key_problem", <<>>)
             w1 == SetState(w, [UpdateJournal(w.state, Scar("veo_api_key_error"))
                                  EXCEPT !.luminousStatus = "uncomfortable",
                                         !.chatHistory = Append(@, errorMessage)])
         IN [saveChatMessages(w1, << errorMessage >>) EXCEPT !.l.pc = "finally"]
    ELSE [SetState(w, [UpdateJournal(w.state, Scar("error")) EXCEPT !.luminousStatus = "uncomfortable"])
            EXCEPT !.l.pc = "finally"]

\* a finally block that resets the status and leaves the flag set
StepFinallyKeeps(w) ==
    [SetState(w, [w.state EXCEPT !.luminousStatus = "idle"]) EXCEPT !.l.pc = "done"]

\* finally (hook 875-878)
StepFinally(w) ==
    [SetState(w, [w.state EXCEPT !.luminousStatus = "idle"]) EXCEPT !.isProcessing = FALSE, !.l.pc = "done"]

Step(w) ==
    CASE w.l.pc = "loop"      -> StepLoop(w)
      [] w.l.pc = "for"       -> StepFor(w)
      [] w.l.pc = "after_for" -> StepAfterFor(w)
      [] w.l.pc = "final"     -> StepFinal(w)
      [] w.l.pc = "catch"     -> StepCatch(w)
      [] w.l.pc = "finally"   -> StepFinally(w)
      [] OTHER                -> w

\* run to the next await or to the end
RECURSIVE Run(_)
Run(w) == IF w.l.pc \in {"await_model", "await_tool", "done", "rejected"} THEN w ELSE Run(Step(w))

World(c) == [state |-> state, canSave |-> canSave, isProcessing |-> isProcessing, netq |-> netq, l |-> calls[c]]

Commit(c, w) ==
    /\ state' = w.state
    /\ canSave' = w.canSave
    /\ isProcessing' = w.isProcessing
    /\ netq' = w.netq
    /\ calls' = [calls EXCEPT ![c] = w.l]

callFrame == <<storeVars, session, isReady, saveStatus, startupTask, prevRef, rendered, debounce, timers,
               boot, saver, mtab, geo, credsAreSet, ticks, cycle, weightUpdates, hist>>

\* processUserMessage(userInput) up to the first await (hook 728-756).  The
\* callback is the one of the last render: its `state`, `isProcessing` and
\* saveChatMessages are that render's.  The chat is on screen once the
\* rendered isReady is true (App.tsx 77-85).
ProcessUserMessage(c, userInput) ==
    /\ rendered.isReady
    /\ turns < MaxTurns
    /\ c = turns + 1
    /\ turns' = turns + 1
    /\ LET l0 == [IdleCall EXCEPT !.state = rendered.state, !.isReady = rendered.isReady]
           w0 == [World(c) EXCEPT !.l = l0]
       IN IF rendered.isProcessing
          THEN Commit(c, [w0 EXCEPT !.l.pc = "rejected"])
          ELSE IF userInput = ""
               THEN Commit(c, [w0 EXCEPT !.l.pc = "done", !.l.error = "empty"])
               ELSE LET newUserMessage == Message("user", "text", <<>>)
                        updatedChatHistory == Append(rendered.state.chatHistory, newUserMessage)
                        w1 == SetState([w0 EXCEPT !.isProcessing = TRUE],
                                       [w0.state EXCEPT !.luminousStatus = "conversing",
                                                        !.chatHistory = updatedChatHistory])
                        w2 == saveChatMessages(w1, << newUserMessage >>)
                        currentStateForApi == [rendered.state EXCEPT !.luminousStatus = "conversing",
                                                                     !.chatHistory = updatedChatHistory]
                        w3 == [w2 EXCEPT !.l.workingChatHistory = updatedChatHistory]
                    IN Commit(c, CallModel(w3, currentStateForApi))
    /\ UNCHANGED callFrame

\* what the model may answer: text, function calls, or both
Batches(n) == UNION { [1..k -> TurnTools \cup {"unregisteredTool"}] : k \in 0..n }
Responses(n) == [text : BOOLEAN, functionCalls : Batches(n)]

\* getLuminousResponse returns (hook 756, 826)
ModelReturns(c, response) ==
    /\ Settled
    /\ calls[c].pc = "await_model"
    /\ calls[c].modelCalls < MaxModelCalls \/ Len(response.functionCalls) = 0
    /\ Commit(c, Run([World(c) EXCEPT !.l.response = response, !.l.pc = "loop"]))
    /\ UNCHANGED <<callFrame, turns>>

\* getLuminousResponse throws (hook 756, 826, 846)
ModelThrows(c) ==
    /\ Settled
    /\ calls[c].pc = "await_model"
    /\ Commit(c, Run([World(c) EXCEPT !.l.error = "Error", !.l.pc = "catch"]))
    /\ UNCHANGED <<callFrame, turns>>

\* what the shop answers to fetchProductList
ProductList == << "product" >>

\* generateVideo / googleSearch / fetchProductList returns (hook 790-814, 565-569)
AfterTool(w) ==
    LET name == w.l.response.functionCalls[w.l.i]
    IN IF name = "generateVideo"
       THEN Run([Pushed(PushTurn(w, Message("model", "video_complete", <<>>)), FunctionResponse(name))
                   EXCEPT !.l.pc = "for"])
       ELSE IF name \in ShopifyTools
       THEN Run([Pushed(SetState(w, [w.state EXCEPT !.products = ProductList]),
                        ToolResult(name, [products |-> ProductList]))
                   EXCEPT !.l.pc = "for"])
       ELSE Run([PushTurn(w, Message("model", "grounded", <<>>))
                   EXCEPT !.l.hasGroundedResponse = TRUE, !.l.pc = "after_for"])

ToolReturns(c) ==
    /\ Settled
    /\ calls[c].pc = "await_tool"
    /\ Commit(c, AfterTool(World(c)))
    /\ UNCHANGED <<callFrame, turns>>

\* generateVideo / googleSearch / fetchProductList throws (shopifyFetch,
\* shopifyService 13-35); only generateVideo throws ApiKeyError
\* (geminiService, unnamed/part_012 197-203)
ToolThrows(c, error) ==
    /\ Settled
    /\ calls[c].pc = "await_tool"
    /\ error = "ApiKeyError" => calls[c].response.functionCalls[calls[c].i] = "generateVideo"
    /\ Commit(c, Run([World(c) EXCEPT !.l.error = error, !.l.pc = "catch"]))
    /\ UNCHANGED <<callFrame, turns>>


\* ------------------------------------ the hook of unnamed/part_009
\* An earlier version of useLuminousCognition: the whole state is kept under
\* one key, and processUserMessage carries its own copy of the state
\* (workingState) which it writes back with updateState(workingState).

\* loadState (part_009 36-57): setState(savedState), or setState(initialState)
\* with saving disabled; then setIsReady(true)
Load009 ==
    /\ Settled
    /\ boot.pc = "load_legacy"
    /\ boot' = [boot EXCEPT !.pc = "ready"]
    /\ isReady' = TRUE
    /\ IF store.legacy # <<>>
       THEN /\ state' = Parse(store.legacy[1])
            /\ canSave' = TRUE
            /\ saveStatus' = "saved"
       ELSE /\ state' = initialState(session)
            /\ canSave' = FALSE
            /\ saveStatus' = "idle"
    /\ UNCHANGED <<storeVars, session, isProcessing, startupTask, prevRef, rendered, debounce, timers,
                   saver, netq, mtab, geo, credsAreSet, ticks, cycle, weightUpdates, calls, turns, hist>>

\* One render and its effects: the save effect (part_009 76-80) hands the
\* whole state to debouncedSaveState, the timer effect (part_009 138-165)
Render009 ==
    LET saveDeps  == state # rendered.state \/ isReady # rendered.isReady
        timerDeps == state.systemPhase # rendered.state.systemPhase
                     \/ state.luminousStatus # rendered.state.luminousStatus
    IN /\ RenderPending
       /\ rendered' = Snapshot(state, isReady, isProcessing, saveStatus, startupTask, prevRef)
       /\ debounce' = IF saveDeps /\ isReady /\ canSave THEN << [new |-> state, old |-> <<>>] >> ELSE debounce
       /\ timers' = IF timerDeps THEN TimerEffect(timers, state) ELSE timers
       /\ UNCHANGED <<storeVars, session, state, isReady, isProcessing, saveStatus, startupTask, canSave,
                      prevRef, procVars, hist>>

\* workingState = {...workingState, chatHistory: [...workingState.chatHistory, m]}; updateState(workingState)
PushTurn009(w, m) ==
    LET workingState == [w.l.workingState EXCEPT !.chatHistory = Append(@, m)]
    IN [SetState(w, workingState) EXCEPT !.l.workingState = workingState]

\* updateState(s => ({...s, chatHistory: [...s.chatHistory, m]}))
AppendTurn(w, m) == SetState(w, [w.state EXCEPT !.chatHistory = Append(@, m)])

\* head of the while loop (part_009 439-448)
StepLoop009(w) ==
    LET functionCalls == w.l.response.functionCalls
    IN IF Len(functionCalls) > 0
       THEN [PushTurn009(w, Message("model", "functionCall", functionCalls))
               EXCEPT !.l.toolResponsesParts = <<>>, !.l.hasGroundedResponse = FALSE,
                      !.l.i = 1, !.l.pc = "for"]
       ELSE [w EXCEPT !.l.pc = "final"]

\* one iteration of the for loop up to its await (part_009 450-491)
StepFor009(w) ==
    IF w.l.i > Len(w.l.response.functionCalls)
    THEN [w EXCEPT !.l.pc = "after_for"]
    ELSE LET name == w.l.response.functionCalls[w.l.i]
         IN CASE name \notin RegisteredTools ->
                   [w EXCEPT !.l.i = @ + 1]
              [] name = "generateVideo" ->
                   [PushTurn009(w, Message("model", "video_started", <<>>)) EXCEPT !.l.pc = "await_tool"]
              [] name \in GroundingTools ->
                   [w EXCEPT !.l.pc = "await_tool"]
              [] OTHER ->
                   [RunLocalTool(w, name) EXCEPT !.l.toolResponsesParts = Append(@, FunctionResponse(name)),
                                                 !.l.i = @ + 1]

\* after the for loop (part_009 493-504): workingState is rebuilt from the
\* `state` of the render that created the callback
StepAfterFor009(w) ==
    CASE w.l.hasGroundedResponse -> [w EXCEPT !.l.pc = "final"]
      [] Len(w.l.toolResponsesParts) > 0 ->
           LET toolTurn == Message("model", "toolResponse", w.l.toolResponsesParts)
               workingState == [w.l.state EXCEPT !.chatHistory = Append(@, toolTurn)]
           IN CallModel([AppendTurn(w, toolTurn) EXCEPT !.l.workingState = workingState], workingState)
      [] OTHER -> [w EXCEPT !.l.pc = "final"]

\* after the while loop (part_009 510-514)
StepFinal009(w) ==
    [(IF w.l.response.text THEN AppendTurn(w, Message("model", "text", <<>>)) ELSE w) EXCEPT !.l.pc = "finally"]

\* catch (part_009 516-542)
StepCatch009(w) ==
    IF w.l.error = "ApiKeyError"
    THEN [SetState(w, [UpdateJournal(w.state, Scar("veo_api_key_error"))
                         EXCEPT !.luminousStatus = "uncomfortable",
                                !.chatHistory = Append(@, Message("model", "api_key_problem", <<>>))])
            EXCEPT !.l.pc = "finally"]
    ELSE [SetState(w, [UpdateJournal(w.state, Scar("error")) EXCEPT !.luminousStatus = "uncomfortable"])
            EXCEPT !.l.pc = "finally"]

Step009(w) ==
    CASE w.l.pc = "loop"      -> StepLoop009(w)
      [] w.l.pc = "for"       -> StepFor009(w)
      [] w.l.pc = "after_for" -> StepAfterFor009(w)
      [] w.l.pc = "final"     -> StepFinal009(w)
      [] w.l.pc = "catch"     -> StepCatch009(w)
      [] w.l.pc = "finally"   -> StepFinally(w)
      [] OTHER                -> w

RECURSIVE Run009(_)
Run009(w) == IF w.l.pc \in {"await_model", "await_tool", "done", "rejected"} THEN w ELSE Run009(Step009(w))

\* processUserMessage(userInput) up to the first await (part_009 407-437)
ProcessUserMessage009(c, userInput) ==
    /\ rendered.isReady
    /\ turns < MaxTurns
    /\ c = turns + 1
    /\ turns' = turns + 1
    /\ LET l0 == [IdleCall EXCEPT !.state = rendered.state, !.isReady = rendered.isReady]
           w0 == [World(c) EXCEPT !.l = l0]
       IN IF rendered.isProcessing
          THEN Commit(c, [w0 EXCEPT !.l.pc = "rejected"])
          ELSE IF userInput = ""
               THEN Commit(c, [w0 EXCEPT !.l.pc = "done", !.l.error = "empty"])
               ELSE LET newUserMessage == Message("user", "text", <<>>)
                        w1 == SetState([w0 EXCEPT !.isProcessing = TRUE],
                                       [w0.state EXCEPT !.luminousStatus = "conversing",
                                                        !.chatHistory = Append(@, newUserMessage)])
                        currentStateForApi == [rendered.state EXCEPT !.luminousStatus = "conversing",
                                                                     !.chatHistory = Append(@, newUserMessage)]
                        w2 == [w1 EXCEPT !.l.workingState = currentStateForApi]
                    IN Commit(c, CallModel(w2, currentStateForApi))
    /\ UNCHANGED callFrame

\* getLuminousResponse returns (part_009 434, 501)
ModelReturns009(c, response) ==
    /\ Settled
    /\ calls[c].pc = "await_model"
    /\ calls[c].modelCalls < MaxModelCalls \/ Len(response.functionCalls) = 0
    /\ Commit(c, Run009([World(c) EXCEPT !.l.response = response, !.l.pc = "loop"]))
    /\ UNCHANGED <<callFrame, turns>>

\* getLuminousResponse throws (part_009 434, 501, 516)
ModelThrows009(c) ==
    /\ Settled
    /\ calls[c].pc = "await_model"
    /\ Commit(c, Run009([World(c) EXCEPT !.l.error = "Error", !.l.pc = "catch"]))
    /\ UNCHANGED <<callFrame, turns>>

\* generateVideo / googleSearch returns (part_009 465-481)
ToolReturns009(c) ==
    /\ Settled
    /\ calls[c].pc = "await_tool"
    /\ LET w == World(c)
           name == w.l.response.functionCalls[w.l.i]
       IN IF name = "generateVideo"
          THEN Commit(c, Run009([PushTurn009(w, Message("model", "video_complete", <<>>))
                                   EXCEPT !.l.toolResponsesParts = Append(@, FunctionResponse(name)),
                                          !.l.i = @ + 1, !.l.pc = "for"]))
          ELSE Commit(c, Run009([PushTurn009(w, Message("model", "grounded", <<>>))
                                   EXCEPT !.l.hasGroundedResponse = TRUE, !.l.pc = "after_for"]))
    /\ UNCHANGED <<callFrame, turns>>

\* generateVideo / googleSearch throws (part_009 465, 472, 516)
ToolThrows009(c, error) ==
    /\ Settled
    /\ calls[c].pc = "await_tool"
    /\ error = "ApiKeyError" => calls[c].response.functionCalls[calls[c].i] = "generateVideo"
    /\ Commit(c, Run009([World(c) EXCEPT !.l.error = error, !.l.pc = "catch"]))
    /\ UNCHANGED <<callFrame, turns>>


\* ------------------------------------------------- intrinsic value weights
\* the record kept of a weight update: its path, whether the merged vector
\* summed to zero, and the stored vector before it
WeightUpdate(path, weights, newWeights) ==
    [path |-> path, zero |-> ZeroSum(weights, newWeights), before |-> state.intrinsicValueWeights]

\* DashboardTab.handleSliderChange(key, value) (part_006 35-46) calling
\* handleWeightsChange (hook 882-884).  The dashboard is on screen once the
\* rendered isReady is true; its state is the one of the last render.
HandleSliderChange(key, value) ==
    /\ rendered.isReady
    /\ weightUpdates > 0
    /\ weightUpdates' = weightUpdates - 1
    /\ LET moved == [k \in {key} |-> value]
           newWeights == Merged(rendered.state.intrinsicValueWeights, moved)
           normalizedWeights == Normalized(newWeights)
       IN /\ state' = [state EXCEPT !.intrinsicValueWeights = normalizedWeights]
          /\ hist' = [hist EXCEPT !.weightUpdate = WeightUpdate("slider", rendered.state.intrinsicValueWeights, moved)]
    /\ canSave' = TRUE
    /\ UNCHANGED <<storeVars, session, isReady, isProcessing, saveStatus, startupTask, prevRef, rendered,
                   debounce, timers, boot, saver, netq, mtab, geo, credsAreSet, ticks, cycle, calls, turns>>

\* the function of the updateIntrinsicValueWeights tool (part_010 265-287)
updateIntrinsicValueWeights(newWeights, currentState) ==
    LET weights == currentState.intrinsicValueWeights
        updatedWeights == Merged(weights, newWeights)
    IN IF ZeroSum(weights, newWeights)
       THEN [ success |-> FALSE, stateUpdate |-> <<>> ]
       ELSE [ success |-> TRUE,
              stateUpdate |-> << [ intrinsicValueWeights |-> Normalized(updatedWeights),
                                   kinshipJournal |-> JournalEntry("reflection", "weights_adjusted", session) ] >> ]

\* the tool returns inside a turn-loop and its stateUpdate is applied
\* (part_010 693-712)
WeightsToolReturns(newWeights) ==
    /\ Settled
    /\ isReady
    /\ weightUpdates > 0
    /\ weightUpdates' = weightUpdates - 1
    /\ LET result == updateIntrinsicValueWeights(newWeights, state)
       IN /\ hist' = [hist EXCEPT !.weightUpdate = WeightUpdate("tool", state.intrinsicValueWeights, newWeights)]
          /\ IF result.stateUpdate # <<>>
             THEN state' = [UpdateJournal(state, result.stateUpdate[1].kinshipJournal)
                              EXCEPT !.intrinsicValueWeights = result.stateUpdate[1].intrinsicValueWeights]
             ELSE UNCHANGED state
    /\ UNCHANGED <<storeVars, session, isReady, isProcessing, saveStatus, startupTask, canSave, prevRef, rendered,
                   debounce, timers, boot, saver, netq, mtab, geo, credsAreSet, ticks, cycle, calls, turns>>

\* ------------------------------------------------------ leaving the page
\* beforeunload / unmount (hook 176-187): debouncedSave.flush() runs the
\* pending callback, whose request is sent as the page goes away.  A request
\* of the debounced save that is already out stays out.
UnloadRequests ==
    LET sent    == IF saver.pc = "hset" THEN << Request("hset", <<>>, saver.fields) >> ELSE <<>>
        fields  == IF debounce # <<>> THEN FieldsToUpdate(debounce[1].new, debounce[1].old) ELSE EmptyHash
        flushed == IF DOMAIN fields # {} THEN << Request("hset", <<>>, HSetArgs(fields)) >> ELSE <<>>
    IN sent \o flushed

Reload ==
    /\ Mount(session + 1)
    /\ netq' = netq \o UnloadRequests
    /\ UNCHANGED <<clock, faults, credsAreSet, ticks, cycle, weightUpdates, turns>>

\* the user reloads the page
UserReload ==
    /\ Settled
    /\ session < MaxSessions
    /\ boot.pc \in {"ready", "failed", "prompt", "no_credentials"}
    /\ mtab.pc = "idle"
    /\ Reload
    /\ UNCHANGED <<store, hist>>

mtabFrame == <<clock, session, hookVars, boot, saver, netq, geo, credsAreSet, ticks, cycle, weightUpdates, calls, turns>>

\* MemoryTab.handleRestore(backupKey) up to its await (MemoryTab 26-33); the
\* key is one of the list shown by handleScan
MemoryTabRestore(backupKey) ==
    /\ Settled
    /\ rendered.isReady
    /\ session < MaxSessions
    /\ mtab.pc = "idle"
    /\ \E i \in 1..Len(store.backups) : store.backups[i] = backupKey
    /\ mtab' = [mtab EXCEPT !.pc = "restore_get", !.key = backupKey]
    /\ UNCHANGED <<store, faults, hist>>
    /\ UNCHANGED mtabFrame

\* restoreStateFromBackup: GET <backupKey> (persistenceService 251-265, MemoryTab 37-40)
MemoryTabGet ==
    /\ Settled
    /\ mtab.pc = "restore_get"
    /\ \E o \in Outcomes2 :
         /\ CountFailure(o)
         /\ IF o = "ok" /\ mtab.key \in DOMAIN store.blobs
            THEN mtab' = [mtab EXCEPT !.pc = "restore_set", !.blob = << store.blobs[mtab.key] >>]
            ELSE mtab' = IdleMtab
    /\ UNCHANGED <<store, hist>>
    /\ UNCHANGED mtabFrame

\* restoreStateFromBackup: DEL + HSET pipeline, then window.location.reload()
\* (persistenceService 267-285, MemoryTab 34-40)
MemoryTabSet ==
    /\ Settled
    /\ mtab.pc = "restore_set"
    /\ \E o \in Outcomes2 :
         /\ CountFailure(o)
         /\ IF o = "ok"
            THEN /\ store' = RestorePipeline(store, mtab.blob[1])
                 /\ hist' = [Touch(hist) EXCEPT !.restored = << mtab.key >>]
                 /\ Mount(session + 1)
                 /\ netq' = netq \o UnloadRequests
                 /\ UNCHANGED <<clock, credsAreSet, ticks, cycle, weightUpdates, turns>>
            ELSE /\ mtab' = IdleMtab
                 /\ UNCHANGED <<store, hist>>
                 /\ UNCHANGED mtabFrame

\* ------------------------------------------------------------------- Init
\* a state written by an earlier page load
PriorState ==
    [ systemPhase      |-> "operational",
      luminousStatus   |-> "idle",
      environmentState |-> [energy |-> FullEnergy, data_storage |-> 10, system_integrity |-> 99],
      intrinsicValueWeights |-> InitialWeights,
      kinshipJournal   |-> << JournalEntry("system", "cold_boot", 0) >>,
      chatHistory      |-> << Message("user", "text", <<>>), Message("model", "text", <<>>) >>,
      products         |-> <<>> ]

EmptyBlobs == [k \in {} |-> Stringify(0)]

EmptyStore  == [legacy |-> <<>>, hash |-> EmptyHash, chat |-> <<>>, backups |-> <<>>, blobs |-> EmptyBlobs]
\* written by the version that kept the whole state under luminous_state
LegacyStore == [EmptyStore EXCEPT !.legacy = << Stringify(PriorState) >>]
\* written by saveCoreStateFields and appendToChatHistory
GranularStore ==
    [EmptyStore EXCEPT !.hash = HSetArgs(CoreOf(PriorState)),
                       !.chat = StringifyAll(PriorState.chatHistory),
                       !.backups = << 1 >>,
                       !.blobs = [k \in {1} |-> Stringify(CoreOf(PriorState))]]
\* the hash key is gone, its backups are not
BackupOnlyStore == [GranularStore EXCEPT !.hash = EmptyHash]

InitialStores == {EmptyStore, LegacyStore, GranularStore, BackupOnlyStore}

InitHist(s) ==
    [ loads |-> <<>>, seeds |-> {}, dirty |-> FALSE, restored |-> <<>>, migrations |-> 0,
      chatAt |-> [k \in DOMAIN s.blobs |-> s.chat],
      weightUpdate |-> [path |-> "none", zero |-> FALSE, before |-> InitialWeights] ]

InitHook ==
    /\ session = 1
    /\ state = initialState(1)
    /\ isReady = FALSE
    /\ isProcessing = FALSE
    /\ saveStatus = "saving"
    /\ startupTask = NoTask
    /\ canSave = FALSE
    /\ prevRef = initialState(1)
    /\ rendered = Snapshot(initialState(1), FALSE, FALSE, "saving", NoTask, initialState(1))
    /\ debounce = <<>>
    /\ timers = NoTimers
    /\ boot = [IdleBoot EXCEPT !.pc = IF credsAreSet THEN "load_legacy" ELSE "no_credentials"]
    /\ saver = IdleSaver
    /\ netq = <<>>
    /\ mtab = IdleMtab
    /\ geo = "pending"
    /\ calls = [c \in CallIds |-> IdleCall]
    /\ turns = 0

InitWith(stores, budget) ==
    /\ store \in stores
    /\ clock = 2
    /\ faults = budget
    /\ credsAreSet = TRUE
    /\ ticks = MaxTicks
    /\ cycle = IdleCycle
    /\ weightUpdates = 0
    /\ hist = InitHist(store)
    /\ InitHook

\* The lifecycle specification: a page load over a store written by
\* saveCoreStateFields, every request reaches the store.
Init == InitWith({GranularStore}, 0)

\* In the lifecycle specification there is one user turn and the model
\* answers it with text or with nothing.
PlainResponses == [text : BOOLEAN, functionCalls : {<<>>}]

\* the model's answers that ask for one to n of the given tools, and the plain ones
BatchesOf(tools, n) == UNION { [1..k -> tools] : k \in 1..n }
ResponsesOf(tools, n) == [text : {FALSE}, functionCalls : BatchesOf(tools, n)] \cup PlainResponses

Next ==
    \/ LoadGetLegacy
    \/ LoadFetch
    \/ Render
    \/ GeolocationCallback
    \/ DebouncedSaveFire
    \/ SaverHSet
    \/ SaverBackup
    \/ NetDeliver
    \/ \E k \in DOMAIN store.blobs : MemoryTabRestore(k)
    \/ MemoryTabGet
    \/ MemoryTabSet
    \/ \E userInput \in {"", "hello"} : ProcessUserMessage(1, userInput)
    \/ \E r \in PlainResponses : ModelReturns(1, r)
    \/ ModelThrows(1)

Spec == Init /\ [][Next]_vars

\* The startup specification: page loads over every kind of store, with
\* requests that fail.
\* getCredentials finds no URL or no token in localStorage (persistenceService 12-20)
InitWithoutCredentials ==
    /\ store \in InitialStores
    /\ clock = 2
    /\ faults = MaxFailures
    /\ credsAreSet = FALSE
    /\ ticks = MaxTicks
    /\ cycle = IdleCycle
    /\ weightUpdates = 0
    /\ hist = InitHist(store)
    /\ InitHook

InitBoot == InitWith(InitialStores, MaxFailures) \/ InitWithoutCredentials

NextBoot ==
    \/ LoadGetLegacy
    \/ LoadMigrate
    \/ LoadFetch
    \/ LoadBackupKey
    \/ BootSaveHSet
    \/ BootSaveBackup
    \/ \E decision \in {"restore", "fresh"} : ResolveStartupTask(decision)
    \/ RestoreGet
    \/ RestoreSet
    \/ Render
    \/ GeolocationCallback
    \/ UserReload

SpecBoot == InitBoot /\ [][NextBoot]_vars

\* what the runtime does by itself: answers of the store, renders, the
\* geolocation callback.  A step of these that can be taken is taken.
BootProgress ==
    \/ LoadGetLegacy
    \/ LoadMigrate
    \/ LoadFetch
    \/ LoadBackupKey
    \/ BootSaveHSet
    \/ BootSaveBackup
    \/ RestoreGet
    \/ RestoreSet
    \/ Render
    \/ GeolocationCallback

SpecBootFair == SpecBoot /\ WF_vars(BootProgress)

\* The turn-loop specification: user turns over a loaded state, the model
\* answers with text, function calls, or both.
NextTurn ==
    \/ LoadGetLegacy
    \/ LoadFetch
    \/ Render
    \/ \E c \in CallIds, userInput \in {"", "hello"} : ProcessUserMessage(c, userInput)
    \/ \E c \in CallIds, r \in Responses(MaxBatch) : ModelReturns(c, r)
    \/ \E c \in CallIds : ModelThrows(c)
    \/ \E c \in CallIds : ToolReturns(c)
    \/ \E c \in CallIds, error \in {"ApiKeyError", "Error"} : ToolThrows(c, error)

SpecTurn == Init /\ [][NextTurn]_vars


\* The specification of the hook of unnamed/part_009: one user turn over a
\* state loaded from the single key, or over the initial state.
Init009 == InitWith({LegacyStore, EmptyStore}, 0)

Next009 ==
    \/ Load009
    \/ Render009
    \/ GeolocationCallback
    \/ DecayTick
    \/ \E userInput \in {"", "hello"} : ProcessUserMessage009(1, userInput)
    \/ \E r \in Responses(MaxBatch) : ModelReturns009(1, r)
    \/ ModelThrows009(1)
    \/ ToolReturns009(1)
    \/ \E error \in {"ApiKeyError", "Error"} : ToolThrows009(1, error)

Spec009 == Init009 /\ [][Next009]_vars

\* The saving specification: an operational state is loaded, it changes
\* under the energy timer and the geolocation callback, the debounced save
\* runs, the page may be left.
NextSave ==
    \/ LoadGetLegacy
    \/ LoadFetch
    \/ Render
    \/ GeolocationCallback
    \/ DecayTick
    \/ DebouncedSaveFire
    \/ SaverHSet
    \/ SaverBackup
    \/ NetDeliver
    \/ UserReload

SpecSave == Init /\ [][NextSave]_vars

\* The chat specification: one user turn over a loaded state, the model
\* answers with text or with nothing, the page may be left at any point.
NextChat ==
    \/ LoadGetLegacy
    \/ LoadFetch
    \/ Render
    \/ GeolocationCallback
    \/ \E userInput \in {"", "hello"} : ProcessUserMessage(1, userInput)
    \/ \E r \in PlainResponses : ModelReturns(1, r)
    \/ ModelThrows(1)
    \/ NetDeliver
    \/ UserReload

SpecChat == Init /\ [][NextChat]_vars

\* The weights specification: over a loaded state the user moves the weight
\* sliders and the model calls the updateIntrinsicValueWeights tool.
\* what the model may pass to the tool: one weight, all weights but one, all weights
ToolWeights ==
    { [k \in {"novelty"} |-> 50],
      [k \in WeightKeys \ {"ethicalAlignment"} |-> 0],
      [k \in WeightKeys |-> 0] }

InitWeights ==
    /\ store = GranularStore
    /\ clock = 2
    /\ faults = 0
    /\ credsAreSet = TRUE
    /\ ticks = 0
    /\ cycle = IdleCycle
    /\ weightUpdates = MaxWeightUpdates
    /\ hist = InitHist(store)
    /\ InitHook

NextWeights ==
    \/ LoadGetLegacy
    \/ LoadFetch
    \/ Render
    \/ \E key \in WeightKeys, value \in {0, SliderSteps} : HandleSliderChange(key, value)
    \/ \E newWeights \in ToolWeights : WeightsToolReturns(newWeights)

SpecWeights == InitWeights /\ [][NextWeights]_vars

\* The backup specification: the energy timer runs long enough for
\* MAX_BACKUPS + 5 saves.  The interval is 5000 ms and the debounce delay
\* 1000 ms: the save started by a tick has finished when the next tick comes.
SnapshotRuns == MAX_BACKUPS + 5

InitBackup ==
    /\ store = GranularStore
    /\ clock = 2
    /\ faults = 0
    /\ credsAreSet = TRUE
    /\ ticks = SnapshotRuns
    /\ cycle = IdleCycle
    /\ weightUpdates = 0
    /\ hist = InitHist(store)
    /\ InitHook

DecayTickAfterSave == debounce = <<>> /\ saver.pc = "idle" /\ DecayTick

NextBackup ==
    \/ LoadGetLegacy
    \/ LoadFetch
    \/ Render
    \/ GeolocationCallback
    \/ DecayTickAfterSave
    \/ DebouncedSaveFire
    \/ SaverHSet
    \/ SaverBackup

SpecBackup == InitBackup /\ [][NextBackup]_vars

\* ================================================================ properties
InFlight(c) == calls[c].pc \in {"await_model", "await_tool"}

\* a model turn the chat view shows as text
UserVisible(m) == m.role = "model" /\ m.kind \in {"grounded", "text", "video_started", "video_complete", "api_key_problem"}

PlainTools == RegisteredTools \ NetworkTools

\* the grounding tool of call c returns, and the batch it belongs to also
\* requests a tool that is neither a grounding tool nor a media tool
GroundedBatchReturns(c) ==
    LET batch == calls[c].response.functionCalls
    IN /\ calls[c].pc = "await_tool"
       /\ batch[calls[c].i] \in GroundingTools
       /\ \E j \in 1..Len(batch) : batch[j] \in PlainTools
       /\ \A j \in 1..Len(batch) : batch[j] # "generateVideo"
       /\ calls'[c].pc # "await_tool"
       /\ calls'[c].error = "none"

\* C1: when a batch holds a grounding tool and a non-grounding tool, the
\* return of the grounding tool appends the grounded turn and nothing else
\* to the chat history (no tool-response turn, no other model turn after
\* it), and the turn ends without another model call.
C1_GroundedBatchEndsTurn ==
    [][\A c \in CallIds :
          GroundedBatchReturns(c) =>
              /\ state'.chatHistory = Append(calls[c].workingChatHistory, Message("model", "grounded", <<>>))
              /\ calls'[c].pc = "done"
              /\ calls'[c].modelCalls = calls[c].modelCalls]_vars

\* C2: at most one turn-loop is in flight at any time.
C2_OneTurnLoopInFlight == Cardinality({c \in CallIds : InFlight(c)}) <= 1

\* the model call or a tool of call c throws
Throws(c) == InFlight(c) /\ calls[c].error = "none" /\ calls'[c].error \in {"ApiKeyError", "Error"}

\* C3: when the model call or a tool throws, whatever the error, one scar
\* entry is appended to the journal, one user-visible model turn is appended
\* to the chat history, and the turn ends with no further model call or tool.
C3_ErrorAppendsScarAndTurn ==
    [][\A c \in CallIds :
          Throws(c) =>
              /\ Len(state'.kinshipJournal) = Len(state.kinshipJournal) + 1
              /\ state'.kinshipJournal[Len(state'.kinshipJournal)].type = "scar"
              /\ IsPrefix(state.kinshipJournal, state'.kinshipJournal)
              /\ Len(state'.chatHistory) = Len(state.chatHistory) + 1
              /\ UserVisible(state'.chatHistory[Len(state'.chatHistory)])
              /\ IsPrefix(state.chatHistory, state'.chatHistory)
              /\ calls'[c].pc = "done"
              /\ calls'[c].modelCalls = calls[c].modelCalls]_vars

\* C4: once the state is ready, the journal before a step is a prefix of the
\* journal after it.
C4_JournalAppendOnly ==
    [][(isReady /\ session' = session) => IsPrefix(state.kinshipJournal, state'.kinshipJournal)]_vars

Quiescent ==
    /\ Settled
    /\ debounce = <<>>
    /\ saver.pc = "idle"
    /\ netq = <<>>
    /\ mtab.pc = "idle"
    /\ \A c \in CallIds : ~InFlight(c)

\* C5: in the first page load, once the state is ready, nothing is pending
\* and the last save succeeded, every core field of the persisted hash equals
\* the field in memory.
C5_PersistedHashEqualsMemory ==
    (session = 1 /\ isReady /\ Quiescent /\ saveStatus = "saved") =>
        \A f \in CoreFields : f \in DOMAIN store.hash /\ Parse(store.hash[f]) = state[f]

\* C6: a run of getLuminousState in which a request failed in transport ends
\* with an error, and a run that returns null has reached a store without
\* primary state.
C6_LoadFailsLoudly ==
    \A i \in 1..Len(hist.loads) :
        /\ hist.loads[i].xfail => hist.loads[i].result = "error"
        /\ hist.loads[i].result = "null" => ~hist.loads[i].xfail /\ ~hist.loads[i].primary

\* C7: while the restore prompt waits for resolveStartupTask, no step changes
\* the in-memory state or the store.
C7_PromptBlocksMutation ==
    [][(boot.pc = "prompt" /\ boot'.pc = "prompt" /\ session' = session) =>
           (state' = state /\ store' = store)]_vars

\* C8: a seed written while the primary state is missing and a backup exists
\* is written on the explicit decision 'fresh'.
C8_SeedOnlyOnFreshDecision ==
    \A seed \in hist.seeds : (seed.noPrimary /\ seed.hadBackup) => seed.path = "fresh"

\* C9: a load that follows restoreStateFromBackup(k), with no write in
\* between, returns the snapshot taken with backup k in every partition:
\* the core fields of the backup and the chat list as it was at that time.
C9_RestoreYieldsSnapshot ==
    \A i \in 1..Len(hist.loads) :
        LET run == hist.loads[i]
        IN (run.restored # <<>> /\ run.result = "state" /\ run.restored[1] \in DOMAIN store.blobs) =>
               /\ CoreOf(run.value[1]) = Parse(store.blobs[run.restored[1]])
               /\ run.value[1].chatHistory = ParseAll(hist.chatAt[run.restored[1]])

\* two runs of getLuminousState in a row, the first one migrating a store
\* that held only the legacy blob, the second one without a failed request
\* and with no write between the two
MigratedThenLoaded ==
    /\ Len(hist.loads) = 2
    /\ hist.loads[1].migrated
    /\ hist.loads[1].legacyOnly
    /\ hist.loads[2].clean
    /\ ~hist.loads[2].xfail

\* C10: the migration write happens at most once, and the load that follows
\* a migrating load does not migrate, returns the state the first one
\* returned, and leaves the persisted hash and the chat list as they were.
C10_MigrationRunsOnce ==
    /\ hist.migrations <= 1
    /\ MigratedThenLoaded =>
          /\ ~hist.loads[2].migrated
          /\ hist.loads[2].result = "state"
          /\ hist.loads[2].value = hist.loads[1].value
          /\ hist.loads[2].hash = hist.loads[1].hash
          /\ hist.loads[2].chat = hist.loads[1].chat

C10_Witness == MigratedThenLoaded /\ hist.loads[2].result = "state" /\ store.legacy = <<>>

\* the values held under the string keys of the store: luminous_state and
\* luminous_core_state_backup:<ts> (the other keys are a hash and two lists)
StringKeys(s) ==
    {s.legacy[i] : i \in DOMAIN s.legacy} \cup {s.blobs[k] : k \in DOMAIN s.blobs}

\* C11: a successful migration leaves the legacy blob in the store, under
\* some string key, with the content it had before the migration.
C11_LegacyContentKept ==
    [][(boot.pc = "load_migrate" /\ store' # store) => store.legacy[1] \in StringKeys(store')]_vars

\* the cold boot of loadState has made the hook ready
ColdBootReady == boot.owner = "loadState" /\ boot.cont = "cold" /\ isReady

\* C12: when the cold boot has made the hook ready, the write of the seed has
\* succeeded: the persisted hash is the seed, whose systemPhase is booting and
\* whose journal is exactly one system entry, and the state in memory is that
\* seed followed by what callbacks have appended since.
C12_ReadyAfterSeedWrite ==
    ColdBootReady =>
        /\ store.hash = HSetArgs(CoreOf(ColdBootState))
        /\ LET seed == ParseHash(store.hash)
           IN /\ seed.systemPhase = "booting"
              /\ Len(seed.kinshipJournal) = 1
              /\ seed.kinshipJournal[1].type = "system"
              /\ state.systemPhase = seed.systemPhase
              /\ IsPrefix(seed.kinshipJournal, state.kinshipJournal)

\* ready after a cold boot over a store that held no primary state and no backup
C12_Witness ==
    /\ ColdBootReady
    /\ [path |-> "cold", hadBackup |-> FALSE, noPrimary |-> TRUE] \in hist.seeds
    /\ store.legacy = <<>>

\* the pending call of debouncedSave runs in this step: the delay has passed,
\* or the page is left and the call is flushed
SaveRuns == debounce # <<>> /\ debounce' = <<>>

\* the arguments of the HSET that this run of debouncedSave hands to
\* saveCoreStateFields (none when it sends nothing)
SavePayload ==
    IF session' = session
    THEN IF saver.pc = "idle" /\ saver'.pc = "hset" THEN saver'.fields ELSE EmptyHash
    ELSE LET out == Len(netq) + (IF saver.pc = "hset" THEN 1 ELSE 0)
         IN IF Len(netq') > out THEN netq'[Len(netq')].args ELSE EmptyHash

JournalEntriesIn(payload) ==
    IF "kinshipJournal" \in DOMAIN payload THEN Len(Parse(payload["kinshipJournal"])) ELSE 0

\* C14: a save that persists journal appends transmits the appended entries
\* only, however many entries the journal already holds, and no chat message.
C14_SaveSendsNewEntriesOnly ==
    [][(SaveRuns /\ debounce[1].old # <<>>
           /\ IsPrefix(debounce[1].old[1].kinshipJournal, debounce[1].new.kinshipJournal)) =>
          /\ JournalEntriesIn(SavePayload) =
                 Len(debounce[1].new.kinshipJournal) - Len(debounce[1].old[1].kinshipJournal)
          /\ "chatHistory" \notin DOMAIN SavePayload]_vars

\* getBackupList: LRANGE luminous_backups 0 -1, answered
getBackupList == store.backups

\* the snapshots written so far: backup blobs are never deleted
SnapshotKeys == DOMAIN store.blobs

\* C15: the backup index holds at most MAX_BACKUPS keys, most recent first,
\* and they are the most recent snapshots: a key is listed exactly when
\* fewer than MAX_BACKUPS snapshots are more recent than it.
C15_BackupIndexCapped ==
    /\ Len(getBackupList) <= MAX_BACKUPS
    /\ \A i \in 1..(Len(getBackupList) - 1) : getBackupList[i] > getBackupList[i + 1]
    /\ \A k \in SnapshotKeys :
          (\E i \in 1..Len(getBackupList) : getBackupList[i] = k)
             <=> Cardinality({j \in SnapshotKeys : j > k}) < MAX_BACKUPS
    /\ \A i \in 1..Len(getBackupList) : getBackupList[i] \in SnapshotKeys

\* MAX_BACKUPS + 5 snapshots have been written and the index is full
C15_Witness ==
    /\ Cardinality(SnapshotKeys) >= MAX_BACKUPS + 5
    /\ Len(getBackupList) = MAX_BACKUPS

\* C16: a core-state save started by a mutation writes no snapshot and
\* pushes no key onto the backup index: while the debounced save runs, the
\* snapshots and the index stay as they are.
C16_SaveWritesNoSnapshot ==
    [][saver.pc # "idle" => (store'.blobs = store.blobs /\ store'.backups = store.backups)]_vars

\* the user turn processUserMessage builds from userInput
NewUserMessage == Message("user", "text", <<>>)

\* how many of the strings are that user turn
UserTurnsIn(strings) == Cardinality({i \in 1..Len(strings) : Parse(strings[i]) = NewUserMessage})

\* the user turns in the chat-list writes that are sent and not yet answered
RECURSIVE UserTurnsUnderWay(_)
UserTurnsUnderWay(q) ==
    IF q = <<>> THEN 0
    ELSE (IF q[1].op = "rpush" THEN UserTurnsIn(q[1].strings) ELSE 0) + UserTurnsUnderWay(Tail(q))

\* call c has passed the guards of processUserMessage
TurnStarted(c) == calls[c].pc \in {"await_model", "await_tool", "gone"} \/ (calls[c].pc = "done" /\ calls[c].error # "empty")

C18_WeightsSumToOne == SumsToOne(state.intrinsicValueWeights)

\* C19: a weight update whose merged vector sums to zero is rejected on
\* every path: the stored vector is the one from before the update, and no
\* result of a division by zero is stored.
C19_ZeroSumUpdateRejected ==
    /\ state.intrinsicValueWeights.den # 0
    /\ (hist.weightUpdate.path # "none" /\ hist.weightUpdate.zero) =>
           state.intrinsicValueWeights = hist.weightUpdate.before

\* C20: without store credentials the hook still becomes ready, so that user
\* turns are processed in memory, instead of staying in the loading state.
C20_ReadyWithoutCredentials == (~credsAreSet) ~> isReady

\* ------------------------------------------------ writes that fail
\* The failing-write specification: one user turn and the debounced save
\* over a loaded state, with store requests that fail in transport.
InitFaulty == InitWith({GranularStore}, MaxFailures)

NextFaulty ==
    \/ LoadGetLegacy
    \/ LoadFetch
    \/ Render
    \/ GeolocationCallback
    \/ DebouncedSaveFire
    \/ SaverHSet
    \/ SaverBackup
    \/ NetDeliver
    \/ ProcessUserMessage(1, "hello")
    \/ \E r \in PlainResponses : ModelReturns(1, r)

SpecFaulty == InitFaulty /\ [][NextFaulty]_vars

\* this step is a write of the debounced save (core fields or backup) or a
\* chat-history append, and its request failed
WriteFailed ==
    /\ faults' < faults
    /\ \/ saver.pc \in {"hset", "backup"} /\ saver' # saver
       \/ netq # <<>> /\ netq' = Tail(netq)

\* C21: every write to the store that fails in transport (core-field save,
\* backup write, chat-history append) leaves saveStatus at 'error'.
C21_FailedWriteShowsError == [][WriteFailed => saveStatus' = "error"]_vars

\* ------------------------------------------------ one turn-loop
\* The single-turn specification: one user turn over a loaded state, the
\* model answers with text, function calls, or both, tools return or throw.
NextLoop ==
    \/ LoadGetLegacy
    \/ LoadFetch
    \/ Render
    \/ ProcessUserMessage(1, "hello")
    \/ \E r \in Responses(MaxBatch) : ModelReturns(1, r)
    \/ ModelThrows(1)
    \/ ToolReturns(1)
    \/ \E error \in {"ApiKeyError", "Error"} : ToolThrows(1, error)

SpecLoop == Init /\ [][NextLoop]_vars

\* a model call after the first of its turn-loop is under way
LaterModelCall(c) == calls[c].pc = "await_model" /\ calls[c].modelCalls > 1

\* C22: on every model call after the first of a turn-loop the history passed
\* is the whole chat history accumulated so far, and the state passed carries
\* every state change the tools of this turn have made.
C22_ModelSeesTurnSoFar ==
    \A c \in CallIds :
        LaterModelCall(c) =>
            /\ calls[c].apiState.chatHistory = calls[c].workingChatHistory
            /\ calls[c].apiState.chatHistory = state.chatHistory
            /\ calls[c].apiState.kinshipJournal = state.kinshipJournal
            /\ calls[c].apiState.systemPhase = state.systemPhase

\* ------------------------------------------------ the virtual file system
\* The file specification: one user turn over a loaded state, the model
\* answers with calls of the file tools.  The store was written by a page
\* load that never wrote a file, by one that wrote FilePath, or by one that
\* wrote and deleted it.
FilesStore ==
    [GranularStore EXCEPT !.hash = Spread(@, HSetArgs([f \in {"virtualFileSystem"} |->
                                                          [p \in {FilePath} |-> OldContent]]))]

\* every file was deleted again
NoFilesStore ==
    [GranularStore EXCEPT !.hash = Spread(@, HSetArgs([f \in {"virtualFileSystem"} |-> NoFiles]))]

InitFiles == InitWith({GranularStore, FilesStore, NoFilesStore}, 0)


NextFiles ==
    \/ LoadGetLegacy
    \/ LoadFetch
    \/ Render
    \/ ProcessUserMessage(1, "hello")
    \/ \E r \in ResponsesOf(FileTools, MaxBatch) : ModelReturns(1, r)
    \/ ModelThrows(1)

SpecFiles == InitFiles /\ [][NextFiles]_vars

\* the result of tool k of the running batch, once it has returned
Returned(c, k, name) ==
    /\ k \in 1..Len(calls[c].toolResponsesParts)
    /\ calls[c].toolResponsesParts[k].functionResponse = name
ResultOf(c, k) == calls[c].toolResponsesParts[k].result

\* C23: within one turn readFile(p) right after writeFile(p, c) returns c,
\* readFile(p) right after a deleteFile(p) that succeeded returns not-found,
\* and a deleteFile(p) right after writeFile(p, c) removes p.
C23_FileToolsSeeEarlierTools ==
    \A c \in CallIds : \A k \in 1..MaxBatch :
        /\ (Returned(c, k, "writeFile") /\ Returned(c, k + 1, "readFile"))
              => ResultOf(c, k + 1) = [success |-> TRUE, content |-> NewContent]
        /\ (Returned(c, k, "deleteFile") /\ ResultOf(c, k).success /\ Returned(c, k + 1, "readFile"))
              => ~ResultOf(c, k + 1).success
        /\ (Returned(c, k, "writeFile") /\ Returned(c, k + 1, "deleteFile")
              /\ Len(calls[c].toolResponsesParts) = k + 1 /\ calls[c].pc = "await_model")
              => (ResultOf(c, k + 1).success /\ FilePath \notin DOMAIN FilesOf(state))

\* ------------------------------------------------ order within a batch
\* the function calls of the turn so far, in the order the model requested
\* them: the parts of the function-call turns of this invocation
RECURSIVE RequestedIn(_)
RequestedIn(messages) ==
    IF messages = <<>> THEN <<>>
    ELSE (IF Head(messages).kind = "functionCall" THEN Head(messages).parts ELSE <<>>)
         \o RequestedIn(Tail(messages))

\* those of them the for loop has gone past: all but the rest of the running batch
Executed(c) ==
    LET all == RequestedIn(calls[c].messagesToSave)
    IN SubSeq(all, 1, Len(all) - Len(calls[c].response.functionCalls) + calls[c].i - 1)

\* the journal events the tools of a sequence of calls leave, in order
RECURSIVE JournalEventsOf(_)
JournalEventsOf(names) ==
    IF names = <<>> THEN <<>>
    ELSE (CASE Head(names) = "logToJournal" -> << "logged" >>
            [] Head(names) = "commenceOperationalPhase" -> << "operational" >>
            [] OTHER -> <<>>)
         \o JournalEventsOf(Tail(names))

\* the journal events written since the invocation began
EventsSince(c) ==
    LET before == Len(calls[c].state.kinshipJournal)
    IN [k \in 1..(Len(state.kinshipJournal) - before) |-> state.kinshipJournal[before + k].event]

\* the results a batch leaves for the model: one per registered tool, in request order
RECURSIVE ResultsOf(_)
ResultsOf(names) ==
    IF names = <<>> THEN <<>>
    ELSE (IF Head(names) \in RegisteredTools THEN << FunctionResponse(Head(names)) >> ELSE <<>>)
         \o ResultsOf(Tail(names))

ToolResponseTurns(messages) == SelectSeq(messages, LAMBDA m : m.kind = "toolResponse")

\* C24: within a batch the tools run one at a time in request order (while
\* tool k is awaited the tools after it have left no effect, the tools
\* before it have), and the results are appended as one tool-response turn
\* per batch with its parts in request order.  A batch that is resubmitted
\* to the model is meant: a batch with a grounding tool ends the loop and
\* leaves no tool-response turn.
C24_ToolsRunInRequestOrder ==
    \A c \in CallIds :
        /\ InFlight(c) => EventsSince(c) = JournalEventsOf(Executed(c))
        /\ LaterModelCall(c) =>
              /\ Len(ToolResponseTurns(calls[c].messagesToSave)) = calls[c].modelCalls - 1
              /\ calls[c].workingChatHistory[Len(calls[c].workingChatHistory)]
                     = Message("model", "toolResponse", ResultsOf(calls[c].response.functionCalls))

C24_Witness ==
    /\ LaterModelCall(1)
    /\ calls[1].response.functionCalls = << "generateVideo", "logToJournal" >>


\* ------------------------------------------------ a tool that throws
\* The shop specification: one user turn over a loaded state, the model asks
\* for the product list and for a journal entry, the shop answers or fails.
NextShop ==
    \/ LoadGetLegacy
    \/ LoadFetch
    \/ Render
    \/ GeolocationCallback
    \/ \E userInput \in {"", "hello"} : ProcessUserMessage(1, userInput)
    \/ \E r \in ResponsesOf(ShopifyTools \cup {"logToJournal"}, MaxBatch) : ModelReturns(1, r)
    \/ ModelThrows(1)
    \/ ToolReturns(1)
    \/ ToolThrows(1, "Error")

SpecShop == Init /\ [][NextShop]_vars

\* the function of the awaited tool, not a grounding tool, throws in this step
ToolThrew(c) ==
    /\ calls[c].pc = "await_tool"
    /\ calls[c].response.functionCalls[calls[c].i] \notin GroundingTools
    /\ Throws(c)

\* C25: when the function of a non-grounding tool throws, an error-shaped
\* result is recorded for it, the loop goes on with the rest of the batch and
\* resubmits to the model: the turn-loop is still under way after the throw.
C25_ToolErrorFedBack ==
    [][\A c \in CallIds :
          ToolThrew(c) => /\ calls'[c].pc \in {"await_tool", "await_model"}
                          /\ Len(calls'[c].toolResponsesParts) > Len(calls[c].toolResponsesParts)]_vars

\* ------------------------------------------------ the status after an error
\* C27: when a turn has failed with a thrown error, luminousStatus is
\* 'uncomfortable' once the turn-loop has finished (so that the timer effect
\* stops the decay and reflection timers until the status is idle again).
C27_UncomfortableAfterError ==
    [][\A c \in CallIds :
          (Throws(c) /\ calls'[c].pc = "done") => state'.luminousStatus = "uncomfortable"]_vars

\* ------------------------------------------------ the energy level
\* The energy specification: a state is loaded whose energy is full, one
\* step above zero or zero; the energy timer ticks, and in one user turn the
\* model calls rechargeEnergy and logToJournal.  Energy is counted in steps
\* of the decay (0.1), without the rounding of floating point.
StoreWithEnergy(e) ==
    [GranularStore EXCEPT !.hash = Spread(@, HSetArgs([f \in {"environmentState"} |->
                                   [PriorState.environmentState EXCEPT !.energy = e]]))]

InitEnergy == InitWith({StoreWithEnergy(FullEnergy), StoreWithEnergy(DecayStep), StoreWithEnergy(0)}, 0)


NextEnergy ==
    \/ LoadGetLegacy
    \/ LoadFetch
    \/ Render
    \/ DecayTick
    \/ ProcessUserMessage(1, "hello")
    \/ \E r \in ResponsesOf({"rechargeEnergy", "logToJournal"}, MaxBatch) : ModelReturns(1, r)
    \/ ModelThrows(1)

SpecEnergy == InitEnergy /\ [][NextEnergy]_vars

\* the for loop has run rechargeEnergy in this step: a call of it lies
\* between the position the loop had and the position it has now
Recharged(c) ==
    /\ calls[c].pc \in {"await_model", "await_tool"}
    /\ calls[c].pc = "await_model" =>       \* a new batch was begun
           /\ Len(calls'[c].messagesToSave) > Len(calls[c].messagesToSave)
           /\ calls'[c].messagesToSave[Len(calls[c].messagesToSave) + 1].kind = "functionCall"
    /\ \E k \in 1..Len(calls'[c].response.functionCalls) :
          /\ calls'[c].response.functionCalls[k] = "rechargeEnergy"
          /\ k < calls'[c].i
          /\ calls[c].pc = "await_tool" => k > calls[c].i

EnergyInRange == state.environmentState.energy \in 0..FullEnergy

\* one step of the hook after the state has been loaded
EnergyStep ==
    LET env == state.environmentState
    IN (isReady /\ isReady')
       => /\ ticks' # ticks => env.energy' = (IF env.energy >= DecayStep THEN env.energy - DecayStep ELSE 0)
          /\ env.energy' > env.energy => \E c \in CallIds : Recharged(c)
          /\ \A c \in CallIds : Recharged(c) => env' = [env EXCEPT !.energy = FullEnergy]
          /\ env.data_storage' = env.data_storage /\ env.system_integrity' = env.system_integrity

applyStateUpdate(prevState, update) ==
    LET restOfUpdate == [f \in DOMAIN update \ {"kinshipJournal"} |-> update[f]]
        newState == Spread(prevState, restOfUpdate)
    IN IF "kinshipJournal" \in DOMAIN update
       THEN [newState EXCEPT !.kinshipJournal = Append(prevState.kinshipJournal, update.kinshipJournal)]
       ELSE newState

\* written by the cold boot of this version (part_010 76-86): initialState and the first journal entry
BootingStore ==
    [EmptyStore EXCEPT !.legacy = << Stringify(UpdateJournal(initialState(0), JournalEntry("system", "initialized", 0))) >>]

\* startTimers (part_010 590-601): both intervals; the reflection interval
\* calls the runReflectionCycle of this render, which has captured isProcessing
startTimers010(t, proc) ==
    [energy |-> t.energy + 1, reflection |-> Append(t.reflection, [isProcessing |-> proc])]

\* the timer effect and the cleanup of its previous run (part_010 587-614)
TimerEffect010(t, st, proc) ==
    IF st.systemPhase = "operational" /\ st.luminousStatus # "uncomfortable"
    THEN startTimers010(stopTimers(t), proc)
    ELSE stopTimers(stopTimers(t))

\* loadState finds the primary state (part_010 39-48, 93-94)
Load010 ==
    /\ Settled
    /\ boot.pc = "load_legacy"
    /\ store.legacy # <<>>
    /\ boot' = [boot EXCEPT !.pc = "ready"]
    /\ state' = Parse(store.legacy[1])
    /\ saveStatus' = "saved"
    /\ isReady' = TRUE
    /\ UNCHANGED <<storeVars, session, isProcessing, startupTask, canSave, prevRef, rendered, debounce, timers,
                   saver, netq, mtab, geo, credsAreSet, ticks, cycle, weightUpdates, calls, turns, hist>>

\* loadState fails in transport (part_010 39, 87-95): the catch reports the
\* error and the finally block sets isReady
Load010Throws ==
    /\ Settled
    /\ boot.pc = "load_legacy"
    /\ faults > 0
    /\ faults' = faults - 1
    /\ boot' = [boot EXCEPT !.pc = "failed"]
    /\ saveStatus' = "error"
    /\ isReady' = TRUE
    /\ UNCHANGED <<store, clock, session, state, isProcessing, startupTask, canSave, prevRef, rendered, debounce,
                   timers, saver, netq, mtab, geo, credsAreSet, ticks, cycle, weightUpdates, calls, turns, hist>>

\* One render and its effects: stateRef.current = state (part_010 29-31), the
\* save effect (part_010 119-123), which hands the whole state to
\* debouncedSaveState when the state or isReady has changed, the
\* move from booting to operational (part_010 138-155) and the timer effect,
\* which runs again when the phase, the status or runReflectionCycle (made
\* anew when isProcessing changes, part_010 584) has changed.
Render010 ==
    LET phaseDeps == isReady # rendered.isReady \/ state.systemPhase # rendered.state.systemPhase
        timerDeps == \/ state.systemPhase # rendered.state.systemPhase
                     \/ state.luminousStatus # rendered.state.luminousStatus
                     \/ isProcessing # rendered.isProcessing
        saveDeps  == state # rendered.state \/ isReady # rendered.isReady
    IN /\ RenderPending
       /\ rendered' = Snapshot(state, isReady, isProcessing, saveStatus, startupTask, prevRef)
       /\ debounce' = IF saveDeps /\ isReady /\ credsAreSet THEN << [new |-> state, old |-> <<>>] >> ELSE debounce
       /\ timers' = IF timerDeps THEN TimerEffect010(timers, state, isProcessing) ELSE timers
       /\ state' = IF phaseDeps /\ isReady /\ state.systemPhase = "booting"
                   THEN [UpdateJournal(state, JournalEntry("system", "boot_complete", session))
                           EXCEPT !.systemPhase = "operational", !.luminousStatus = "idle"]
                   ELSE state
       /\ UNCHANGED <<storeVars, session, isReady, isProcessing, saveStatus, startupTask, canSave,
                      prevRef, procVars, hist>>

\* the debounce delay has passed: saveStateToPersistence up to its await (part_010 103-106)
DebouncedSaveFire010 ==
    /\ Settled
    /\ debounce # <<>>
    /\ saver.pc = "idle"
    /\ debounce' = <<>>
    /\ saveStatus' = "saving"
    /\ saver' = [saver EXCEPT !.pc = "set", !.fields = [k \in {"luminous_state"} |-> Stringify(debounce[1].new)]]
    /\ UNCHANGED <<storeVars, session, state, isReady, isProcessing, startupTask, canSave, prevRef, rendered,
                   timers, boot, netq, mtab, geo, credsAreSet, ticks, cycle, weightUpdates, calls, turns, hist>>

\* saveLuminousState answers (part_010 106-116): the whole state is written
\* under the key this version loads from
SaverSet010 ==
    /\ Settled
    /\ saver.pc = "set"
    /\ saver' = IdleSaver
    /\ \E o \in Outcomes2 :
         /\ CountFailure(o)
         /\ IF o = "ok"
            THEN /\ store' = [store EXCEPT !.legacy = << saver.fields["luminous_state"] >>]
                 /\ hist' = Touch(hist)
                 /\ saveStatus' = "saved"
            ELSE /\ saveStatus' = "error"
                 /\ UNCHANGED <<store, hist>>
    /\ UNCHANGED <<clock, saverFrame>>


\* the for loop over the standard tools and the merge of their state updates
\* (part_010 530-550, 689-709): the journal entries are appended in call order
AfterTools010(currentState, functionCalls, type) ==
    LET logged == SelectSeq(functionCalls, LAMBDA name : name = "logToJournal")
        journalEntries == [i \in 1..Len(logged) |-> JournalEntry(type, "logged", session)]
    IN IF Len(journalEntries) > 0
       THEN [currentState EXCEPT !.kinshipJournal = @ \o journalEntries]
       ELSE currentState

\* the toolResponses of the for loop, one for every registered tool
ToolResponses010(functionCalls) ==
    LET found == SelectSeq(functionCalls, LAMBDA name : name = "logToJournal")
    IN [i \in 1..Len(found) |-> FunctionResponse(found[i])]

\* the function calls of a model response in this version: logToJournal
\* (part_010 237-249) or a tool that is not registered
Tools010 == {"logToJournal", "unregisteredTool"}

reflectionMessage == Message("user", "reflection_prompt", <<>>)

\* the reflection interval fires: runReflectionCycle up to its await
\* (part_010 502-519).  A call that returns at its first line changes nothing.
ReflectionTick ==
    /\ Settled
    /\ timers.reflection # <<>>
    /\ cycle.pc = "idle"
    /\ cycle.left > 0
    /\ LET callback == timers.reflection[Len(timers.reflection)]
           stateRef == rendered.state
       IN /\ ~(stateRef.systemPhase # "operational" \/ callback.isProcessing)
          /\ isProcessing' = TRUE
          /\ state' = [state EXCEPT !.luminousStatus = "reflecting"]
          /\ cycle' = [pc |-> "await_model", left |-> cycle.left - 1,
                       apiState |-> << [stateRef EXCEPT !.chatHistory = Append(@, reflectionMessage)] >>]
    /\ UNCHANGED <<storeVars, session, isReady, saveStatus, startupTask, canSave, prevRef, rendered, debounce,
                   timers, boot, saver, netq, mtab, geo, credsAreSet, ticks, weightUpdates, calls, turns, hist>>

\* getLuminousResponse returns to runReflectionCycle (part_010 519-559, 570-573)
ReflectionReturns(response) ==
    /\ Settled
    /\ cycle.pc = "await_model"
    /\ cycle' = [cycle EXCEPT !.pc = "idle"]
    /\ isProcessing' = FALSE
    /\ LET stateRef == rendered.state
           functionCalls == response.functionCalls
           modelTurn == Message("model", "functionCall", functionCalls)
           toolTurn == Message("model", "toolResponse", ToolResponses010(functionCalls))
           currentState == applyStateUpdate(stateRef, [chatHistory |-> Append(stateRef.chatHistory, modelTurn)])
           tempState == AfterTools010(currentState, functionCalls, "reflection")
           withToolTurn == applyStateUpdate(tempState, [chatHistory |-> Append(tempState.chatHistory, toolTurn)])
           written == IF Len(functionCalls) > 0
                      THEN Spread(withToolTurn, [f \in {"lastReflectionTimestamp"} |-> session])
                      ELSE state
       IN state' = [written EXCEPT !.luminousStatus = "idle"]
    /\ UNCHANGED <<storeVars, session, isReady, saveStatus, startupTask, canSave, prevRef, rendered, debounce,
                   timers, boot, saver, netq, mtab, geo, credsAreSet, ticks, weightUpdates, calls, turns, hist>>

\* getLuminousResponse throws in runReflectionCycle (part_010 560-573)
ReflectionThrows ==
    /\ Settled
    /\ cycle.pc = "await_model"
    /\ cycle' = [cycle EXCEPT !.pc = "idle"]
    /\ isProcessing' = FALSE
    /\ state' = [applyStateUpdate(state, [kinshipJournal |-> Scar("reflection_error")])
                   EXCEPT !.luminousStatus = "idle"]
    /\ UNCHANGED <<storeVars, session, isReady, saveStatus, startupTask, canSave, prevRef, rendered, debounce,
                   timers, boot, saver, netq, mtab, geo, credsAreSet, ticks, weightUpdates, calls, turns, hist>>

frame010 == <<storeVars, session, isReady, saveStatus, startupTask, canSave, prevRef, rendered, debounce,
              timers, boot, saver, netq, mtab, geo, credsAreSet, ticks, cycle, weightUpdates, hist>>

\* processUserMessage(userInput) up to its first await (part_010 616-645);
\* isProcessing and state are the ones of the render that made the callback
ProcessUserMessage010(c, userInput) ==
    /\ rendered.isReady
    /\ turns < MaxTurns
    /\ c = turns + 1
    /\ turns' = turns + 1
    /\ IF rendered.isProcessing
       THEN /\ calls' = [calls EXCEPT ![c].pc = "rejected"]
            /\ UNCHANGED <<state, isProcessing>>
       ELSE IF userInput = ""
            THEN /\ calls' = [calls EXCEPT ![c].pc = "done", ![c].error = "empty"]
                 /\ isProcessing' = FALSE
                 /\ UNCHANGED state
            ELSE LET newUserMessage == Message("user", "text", <<>>)
                     currentState == applyStateUpdate(rendered.state,
                                        [luminousStatus |-> "conversing",
                                         chatHistory |-> Append(rendered.state.chatHistory, newUserMessage)])
                 IN /\ isProcessing' = TRUE
                    /\ state' = currentState
                    /\ calls' = [calls EXCEPT ![c].pc = "await_model", ![c].modelCalls = 1,
                                              ![c].workingState = currentState, ![c].apiState = currentState]
    /\ UNCHANGED frame010

\* getLuminousResponse returns to processUserMessage (part_010 645-650, 689-731, 759-762)
ModelReturns010(c, response) ==
    /\ Settled
    /\ calls[c].pc = "await_model"
    /\ calls[c].modelCalls < MaxModelCalls \/ Len(response.functionCalls) = 0
    /\ LET functionCalls == response.functionCalls
           modelTurn == Message("model", "functionCall", functionCalls)
           toolTurn == Message("model", "toolResponse", ToolResponses010(functionCalls))
           withModelTurn == applyStateUpdate(calls[c].workingState,
                               [chatHistory |-> Append(calls[c].workingState.chatHistory, modelTurn)])
           tempState == AfterTools010(withModelTurn, functionCalls, "interaction")
           currentState == applyStateUpdate(tempState, [chatHistory |-> Append(tempState.chatHistory, toolTurn)])
           newModelMessage == Message("model", "text", <<>>)
       IN IF Len(functionCalls) > 0
          THEN /\ state' = currentState
               /\ UNCHANGED isProcessing
               /\ calls' = [calls EXCEPT ![c].modelCalls = @ + 1, ![c].response = response,
                                         ![c].workingState = currentState, ![c].apiState = currentState]
          ELSE /\ state' = [(IF response.text
                             THEN applyStateUpdate(state, [chatHistory |-> Append(state.chatHistory, newModelMessage)])
                             ELSE state) EXCEPT !.luminousStatus = "idle"]
               /\ isProcessing' = FALSE
               /\ calls' = [calls EXCEPT ![c].pc = "done", ![c].response = response]
    /\ UNCHANGED <<frame010, turns>>

\* getLuminousResponse throws in processUserMessage (part_010 733-762)
ModelThrows010(c) ==
    /\ Settled
    /\ calls[c].pc = "await_model"
    /\ state' = [applyStateUpdate(state, [luminousStatus |-> "uncomfortable", kinshipJournal |-> Scar("error")])
                   EXCEPT !.luminousStatus = "idle"]
    /\ isProcessing' = FALSE
    /\ calls' = [calls EXCEPT ![c].pc = "done", ![c].error = "Error"]
    /\ UNCHANGED <<frame010, turns>>

\* The reflection specification: a page load of this version over a stored
\* state, the timers, one reflection cycle and one turn of the user, in
\* which the model asks for one tool at a time.
Init010With(failures) ==
    /\ store \in {LegacyStore, BootingStore}
    /\ clock = 2
    /\ faults = failures
    /\ credsAreSet = TRUE
    /\ ticks = MaxTicks
    /\ cycle = [IdleCycle EXCEPT !.left = MaxCycles]
    /\ weightUpdates = 0
    /\ hist = InitHist(store)
    /\ InitHook

Init010 == Init010With(0)

Next010 ==
    \/ Load010
    \/ Render010
    \/ DecayTick
    \/ ReflectionTick
    \/ \E r \in ResponsesOf(Tools010, MaxBatch) : ReflectionReturns(r)
    \/ ReflectionThrows
    \/ \E userInput \in {"", "hello"} : ProcessUserMessage010(1, userInput)
    \/ \E r \in ResponsesOf(Tools010, 1) : ModelReturns010(1, r)
    \/ ModelThrows010(1)

Spec010 == Init010 /\ [][Next010]_vars

\* C26: an energy or reflection interval is running only while the phase is
\* operational and the status is not uncomfortable, and never more than one
\* of each kind is running.
C26_TimersOnlyWhenOperational ==
    /\ (timers.energy > 0 \/ timers.reflection # <<>>)
         => (state.systemPhase = "operational" /\ state.luminousStatus # "uncomfortable")
    /\ timers.energy <= 1
    /\ Len(timers.reflection) <= 1

\* the timer effect has run again while both intervals were running
C26_Witness ==
    /\ timers.energy = 1
    /\ Len(timers.reflection) = 1
    /\ timers.reflection[1].isProcessing
    /\ rendered.state.luminousStatus = "conversing"

\* C28: a reflection cycle and a turn of the user are never in flight at the
\* same time, whatever the order of the reflection tick and the user's message.
C28_ReflectionExcludesUserTurn ==
    ~(cycle.pc = "await_model" /\ \E c \in CallIds : InFlight(c))

\* operational, not uncomfortable, and no turn is being processed
ReflectionDue ==
    /\ state.systemPhase = "operational"
    /\ state.luminousStatus # "uncomfortable"
    /\ ~isProcessing

\* The energy specification with its scheduling: the load, the renders, the
\* energy timer and the answers of the model are not postponed for ever; the
\* user may stay silent.
SpecEnergyFair ==
    /\ SpecEnergy
    /\ WF_vars(LoadGetLegacy)
    /\ WF_vars(LoadFetch)
    /\ WF_vars(Render)
    /\ WF_vars(DecayTick)
    /\ WF_vars((\E r \in ResponsesOf({"rechargeEnergy", "logToJournal"}, MaxBatch) : ModelReturns(1, r)) \/ ModelThrows(1))

\* C29: while the phase is operational, the status is not uncomfortable and
\* no turn is being processed, a reflection interval is running, and a
\* reflection cycle eventually calls the model.
C29_ReflectionEventuallyRuns ==
    /\ [](Settled /\ ReflectionDue => timers.reflection # <<>>)
    /\ ReflectionDue ~> (cycle.pc = "await_model")

\* -------------------------------------------------- restore, then reload
\* C31: once restoreStateFromBackup has written the restored hash, no write
\* that was pending before it (the save flushed as the page goes away, or a
\* save request that was still out) changes the hash, and the load of the
\* reloaded page returns the restored core fields.
C31_NoStaleWriteAfterRestore ==
    /\ [][(hist.restored # <<>> /\ netq # <<>> /\ netq[1].op = "hset") => store'.hash = store.hash]_vars
    /\ [](\A i \in 1..Len(hist.loads) :
            (hist.loads[i].restored # <<>> /\ hist.loads[i].result = "state"
                /\ hist.loads[i].restored[1] \in DOMAIN store.blobs)
              => CoreOf(hist.loads[i].value[1]) = Parse(store.blobs[hist.loads[i].restored[1]]))

\* ------------------------------------- a legacy blob next to granular state
\* a state written under luminous_state by a version that kept the whole state in one key
OlderState ==
    [PriorState EXCEPT !.kinshipJournal = << JournalEntry("system", "older", 0) >>,
                       !.chatHistory = << Message("user", "text", <<>>) >>]

\* the granular keys and the legacy key side by side
MixedStore == [GranularStore EXCEPT !.legacy = << Stringify(OlderState) >>]

\* The mixed-store specification: page loads over a store that holds both
\* layouts, followed by saves and reloads.
InitMixed == InitWith({MixedStore}, 0)

NextMixed ==
    \/ LoadGetLegacy
    \/ LoadMigrate
    \/ LoadFetch
    \/ Render
    \/ GeolocationCallback
    \/ DecayTick
    \/ DebouncedSaveFire
    \/ SaverHSet
    \/ SaverBackup
    \/ NetDeliver
    \/ UserReload

SpecMixed == InitMixed /\ [][NextMixed]_vars

\* C32: the migration pipeline runs only when the store holds no granular
\* state: over a store that holds a legacy blob and a non-empty hash, the
\* load leaves the hash fields and the chat list as they are.
C32_NoMigrationOverGranularState ==
    [][(boot.pc = "load_migrate" /\ boot'.pc # "load_migrate" /\ DOMAIN store.hash # {})
          => (store'.hash = store.hash /\ store'.chat = store.chat)]_vars

\* ------------------------------------------------ reload after a cold boot
\* C33: a page load that follows a cold boot, with the seed still being what
\* the hash holds and no failed request, neither boots cold again nor asks
\* for a restore, and loads the seeded state in every partition, chatHistory
\* included.
C33_ReloadAfterColdBootLoadsSeed ==
    \A s \in 1..MaxSessions :
        LET seed == [initialState(s) EXCEPT !.kinshipJournal = << JournalEntry("system", "cold_boot", s) >>]
        IN (/\ session = s + 1
            /\ Len(hist.loads) = 2
            /\ hist.loads[1].result = "null"
            /\ \E seeded \in hist.seeds : seeded.path = "cold"
            /\ hist.loads[2].hash = HSetArgs(CoreOf(seed))
            /\ ~hist.loads[2].xfail)
           => /\ hist.loads[2].result = "state"
              /\ MergedState(hist.loads[2].value[1]) = seed

KnownCapability == "Tool Use"
NewCapability   == "Advanced Data Analysis"

SelfModelStore ==
    [GranularStore EXCEPT !.hash = Spread(@, HSetArgs([f \in {"selfModel"} |->
                                                          [capabilities |-> << KnownCapability >>]]))]

\* the arguments the model passes to modifySelfModel
SelfModelArgs == [action : {"add", "remove"}, capability : {KnownCapability, NewCapability}]

\* the model's answers that call modifySelfModel one to n times, and the plain ones
SelfModelResponses(n) ==
    UNION { { [text |-> FALSE, functionCalls |-> [i \in 1..k |-> "modifySelfModel"], args |-> a] :
                a \in [1..k -> SelfModelArgs] } : k \in 1..n } \cup PlainResponses

NextSelfModel ==
    \/ LoadGetLegacy
    \/ LoadFetch
    \/ Render
    \/ ProcessUserMessage(1, "hello")
    \/ \E r \in SelfModelResponses(MaxBatch) : ModelReturns(1, r)
    \/ ModelThrows(1)

SpecSelfModel == InitWith({SelfModelStore}, 0) /\ [][NextSelfModel]_vars

\* the model's answer handled in this step is one call of modifySelfModel
SelfModelCall(c) ==
    /\ calls[c].pc = "await_model"
    /\ calls'[c].modelCalls = calls[c].modelCalls + 1
    /\ calls'[c].response.functionCalls = << "modifySelfModel" >>

\* C35: 'add' of a capability that is present and 'remove' of one that is
\* absent leave the capability list as it is and append one journal entry;
\* no call makes a capability appear twice.
C35_NoOpStillLogged ==
    [][\A c \in CallIds :
          SelfModelCall(c) =>
              LET a == calls'[c].response.args[1]
                  before == state.selfModel.capabilities
                  after == state'.selfModel.capabilities
                  present == \E i \in 1..Len(before) : before[i] = a.capability
                  noop == (a.action = "add" /\ present) \/ (a.action = "remove" /\ ~present)
              IN /\ noop => /\ after = before
                            /\ Len(state'.kinshipJournal) = Len(state.kinshipJournal) + 1
                            /\ SubSeq(state'.kinshipJournal, 1, Len(state.kinshipJournal)) = state.kinshipJournal
                 /\ \A i, j \in 1..Len(after) : after[i] = after[j] => i = j]_vars


\* a step in which a turn-loop or a reflection cycle resumes from its await
LoopResumes ==
    \/ \E c \in CallIds : calls[c].pc = "await_model" /\ calls'[c] # calls[c]
    \/ cycle.pc = "await_model" /\ cycle' # cycle

\* C36: what a timer or a callback changed while a loop was suspended is
\* still in the state after the loop has written its updates: a resuming loop
\* keeps the energy of the latest state and only appends to its journal.
C36_LoopKeepsConcurrentChanges ==
    [][LoopResumes =>
          /\ state'.environmentState.energy = state.environmentState.energy
          /\ Len(state'.kinshipJournal) >= Len(state.kinshipJournal)
          /\ SubSeq(state'.kinshipJournal, 1, Len(state.kinshipJournal)) = state.kinshipJournal]_vars


\* the messages a sequence of requests appends to the chat list, in order
RECURSIVE AppendedBy(_)
AppendedBy(requests) ==
    IF requests = <<>> THEN <<>>
    ELSE (IF Head(requests).op = "rpush" THEN Head(requests).strings ELSE <<>>) \o AppendedBy(Tail(requests))

\* C37: when a turn finishes, the messages it has asked the store to append
\* to the chat list are the messages it has appended to the chatHistory in
\* memory, in the same order: the user's message when the turn begins, and
\* every later message of the turn when it ends.
C37_PersistedChatMatchesMemory ==
    [][\A c \in CallIds :
          LET issued == AppendedBy(SubSeq(netq', Len(netq) + 1, Len(netq')))
              base == Len(calls'[c].state.chatHistory)
          IN /\ (calls[c].pc = "idle" /\ calls'[c].pc = "await_model")
                   => issued = StringifyAll(SubSeq(state'.chatHistory, base + 1, Len(state'.chatHistory)))
             /\ (InFlight(c) /\ calls'[c].pc = "done")
                   => issued = StringifyAll(SubSeq(state'.chatHistory, base + 2, Len(state'.chatHistory)))]_vars


\* ------------------------------------------ a page load that fails
\* The failed-load specification of unnamed/part_010: the page loads over a
\* stored state while requests may fail, the energy timer runs, the user
\* sends one message, and the debounced save writes what the save effect
\* hands it.
Next010Save ==
    \/ Load010
    \/ Load010Throws
    \/ Render010
    \/ DecayTick
    \/ ProcessUserMessage010(1, "hello")
    \/ \E r \in PlainResponses : ModelReturns010(1, r)
    \/ ModelThrows010(1)
    \/ DebouncedSaveFire010
    \/ SaverSet010

Spec010Save == Init010With(MaxFailures) /\ [][Next010Save]_vars

\* C38: once the initial load has failed in transport the session writes
\* nothing to the store.
C38_FailedLoadNeverWrites ==
    [][boot.pc = "failed" => store' = store]_vars


\* ------------------------------------------------ a turn that goes on
\* The loop of processUserMessage has no bound of its own (hook 761): the
\* model may ask for tools in every answer.  The turns of the first
\* MaxModelCalls + 1 model calls are recorded as the code records them; of a
\* loop that goes on beyond that, the counter, the chat lists and the state
\* are kept as they are, so that its further iterations stay within finitely
\* many states.
Onward(c, w) ==
    IF calls[c].modelCalls > MaxModelCalls /\ w.l.pc \in {"await_model", "await_tool"}
    THEN [w EXCEPT !.l.modelCalls = calls[c].modelCalls,
                   !.l.workingChatHistory = calls[c].workingChatHistory,
                   !.l.messagesToSave = calls[c].messagesToSave,
                   !.l.apiState = calls[c].apiState,
                   !.state = state]
    ELSE w

\* getLuminousResponse returns, whatever the number of earlier model calls (hook 756, 826)
ModelReturnsOnward(c, response) ==
    /\ Settled
    /\ calls[c].pc = "await_model"
    /\ Commit(c, Onward(c, Run([World(c) EXCEPT !.l.response = response, !.l.pc = "loop"])))
    /\ UNCHANGED <<callFrame, turns>>

\* generateVideo / googleSearch returns, whatever the number of earlier model calls
ToolReturnsOnward(c) ==
    /\ Settled
    /\ calls[c].pc = "await_tool"
    /\ Commit(c, Onward(c, AfterTool(World(c))))
    /\ UNCHANGED <<callFrame, turns>>

NextOnward ==
    \/ LoadGetLegacy
    \/ LoadFetch
    \/ Render
    \/ \E userInput \in {"", "hello"} : ProcessUserMessage(1, userInput)
    \/ \E r \in ResponsesOf(NetworkTools \cup {"logToJournal"}, 1) : ModelReturnsOnward(1, r)
    \/ ModelThrows(1)
    \/ ToolReturnsOnward(1)
    \/ \E error \in {"ApiKeyError", "Error"} : ToolThrows(1, error)

\* every pending call of the model or of a tool returns or throws, the page
\* load and the renders are not postponed for ever; the user may stay silent
SpecOnwardFair ==
    /\ Init /\ [][NextOnward]_vars
    /\ WF_vars(LoadGetLegacy)
    /\ WF_vars(LoadFetch)
    /\ WF_vars(Render)
    /\ WF_vars((\E r \in ResponsesOf(NetworkTools \cup {"logToJournal"}, 1) : ModelReturnsOnward(1, r)) \/ ModelThrows(1))
    /\ WF_vars(ToolReturnsOnward(1) \/ (\E error \in {"ApiKeyError", "Error"} : ToolThrows(1, error)))

\* processUserMessage has been called and has not returned at its first line
Accepted(c) == calls[c].pc \notin {"idle", "rejected"}

\* the invocation is over, the flag is clear and the status is not 'conversing'
Cleared(c) == calls[c].pc = "done" /\ ~isProcessing /\ state.luminousStatus # "conversing"

\* C39 as stated: provided every model and tool call returns or throws, every
\* accepted call of processUserMessage eventually clears the processing flag
\* and leaves a status other than 'conversing'.
C39_EveryTurnClearsFlag == Accepted(1) ~> Cleared(1)

\* C39 as amended: provided every model and tool call returns or throws, an
\* accepted call of processUserMessage eventually clears the processing flag
\* and leaves a status other than 'conversing', unless the model goes on
\* asking for tools (here: in more than MaxModelCalls answers).
C39_EndingTurnClearsFlag == Accepted(1) ~> (Cleared(1) \/ calls[1].modelCalls > MaxModelCalls)

C39_Witness ==
    /\ Cleared(1)
    /\ calls[1].error = "none"
    /\ calls[1].modelCalls = MaxModelCalls


\* ------------------------------------------------ unknown tools
\* the model's answer handled in this step asks only for tools that are not registered
UnknownBatch(c) ==
    /\ calls[c].pc = "await_model"
    /\ calls'[c] # calls[c]
    /\ calls'[c].error = "none"
    /\ Len(calls'[c].response.functionCalls) > 0
    /\ \A i \in 1..Len(calls'[c].response.functionCalls) :
           calls'[c].response.functionCalls[i] \notin RegisteredTools

\* the turns this step has appended to the chatHistory
NewTurns == SubSeq(state'.chatHistory, Len(state.chatHistory) + 1, Len(state'.chatHistory))

============================================================================
